---- MODULE Spec2Model ----
(***************************************************************************)
(* Embedded-SQL region detection of the DuckDB R editor extension:         *)
(* SQLStringDetector, ParenMatcher and GlueInterpolationHandler, driven by *)
(* an editor that opens R documents and moves the cursor.                  *)
(*                                                                         *)
(* A document is the sequence of its lines (vscode.TextDocument.lineAt);   *)
(* a position is a record [line, character], both 0-based as in vscode;    *)
(* strings are indexed 0-based by charAt, as in JavaScript.                *)
(***************************************************************************)
EXTENDS Integers, Sequences, FiniteSets, TLC

VARIABLES document, src, position, pc, result,
          parts, sqlText, cursorOffset, gpc, inside, stripped,
          docs, cache, now, ret, stored, invalidated, cls,
          parenParts, parenText, parenPos, ppc, closeParen, insideParens,
          literal, litPos, spc, litRange,
          scanText, scanOffset, scanned,
          activated, isEnabled, checkOnActivity, pollTimer, debounceTimer, activityListeners, currentSignature, checks, connectionName, providerTables, rTables, tablesSeen, functionsSeen, refreshCalls,
          providers, cliProvider, connectionManager, schemaProvider, completionSchemaProvider, dbTables,
          decoratorConstructed, enableBackgroundColor, decorationType, updateTimeout, editorDocuments, decorations, pendingDecoration

vars ==
    <<document, src, position, pc, result,
      parts, sqlText, cursorOffset, gpc, inside, stripped,
      docs, cache, now, ret, stored, invalidated, cls,
      parenParts, parenText, parenPos, ppc, closeParen, insideParens,
      literal, litPos, spc, litRange,
      scanText, scanOffset, scanned,
      activated, isEnabled, checkOnActivity, pollTimer, debounceTimer, activityListeners, currentSignature, checks, connectionName, providerTables, rTables, tablesSeen, functionsSeen, refreshCalls,
      providers, cliProvider, connectionManager, schemaProvider, completionSchemaProvider, dbTables,
      decoratorConstructed, enableBackgroundColor, decorationType, updateTimeout, editorDocuments, decorations, pendingDecoration>>

detectorVars == <<document, src, position, pc, result>>

glueVars == <<parts, sqlText, cursorOffset, gpc, inside, stripped>>

cacheVars == <<docs, cache, now, ret, stored, invalidated, cls>>

parenVars == <<parenParts, parenText, parenPos, ppc, closeParen, insideParens>>

stringVars == <<literal, litPos, spc, litRange>>

scanVars == <<scanText, scanOffset, scanned>>

watcherVars == <<activated, isEnabled, checkOnActivity, pollTimer, debounceTimer, activityListeners, currentSignature, checks, connectionName, providerTables, rTables, tablesSeen, functionsSeen, refreshCalls>>

extensionVars == <<providers, cliProvider, connectionManager, schemaProvider, completionSchemaProvider, dbTables>>

decoratorVars == <<decoratorConstructed, enableBackgroundColor, decorationType, updateTimeout, editorDocuments, decorations, pendingDecoration>>

\* the variables an action of one group leaves alone: those of the other groups
exceptDetector == <<glueVars, cacheVars, parenVars, stringVars, scanVars, watcherVars, extensionVars, decoratorVars>>

exceptGlue == <<detectorVars, cacheVars, parenVars, stringVars, scanVars, watcherVars, extensionVars, decoratorVars>>

exceptCache == <<detectorVars, glueVars, parenVars, stringVars, scanVars, watcherVars, extensionVars, decoratorVars>>

exceptParen == <<detectorVars, glueVars, cacheVars, stringVars, scanVars, watcherVars, extensionVars, decoratorVars>>

exceptString == <<detectorVars, glueVars, cacheVars, parenVars, scanVars, watcherVars, extensionVars, decoratorVars>>

exceptScan == <<detectorVars, glueVars, cacheVars, parenVars, stringVars, watcherVars, extensionVars, decoratorVars>>

exceptWatcher == <<detectorVars, glueVars, cacheVars, parenVars, stringVars, scanVars, extensionVars, decoratorVars>>

exceptExtension == <<detectorVars, glueVars, cacheVars, parenVars, stringVars, scanVars, watcherVars, decoratorVars>>

exceptDecorator == <<detectorVars, glueVars, cacheVars, parenVars, stringVars, scanVars, watcherVars, extensionVars>>

(***************************************************************************)
(* JavaScript string primitives                                            *)
(***************************************************************************)

\* s[i] of an index outside the string
undefined == "<undefined>"

Min(a, b) == IF a < b THEN a ELSE b

Max(a, b) == IF a > b THEN a ELSE b

charAt(s, i) == IF i >= 0 /\ i < Len(s) THEN SubSeq(s, i + 1, i + 1) ELSE undefined

\* s.substring(a, b), indices clamped to [0, length]
substring(s, a, b) ==
    LET lo == Max(0, Min(a, Len(s)))
        hi == Max(0, Min(b, Len(s)))
    IN SubSeq(s, Min(lo, hi) + 1, Max(lo, hi))

startsWithAt(s, name, i) == i >= 0 /\ i + Len(name) <= Len(s) /\ SubSeq(s, i + 1, i + Len(name)) = name

endsWith(s, suffix) == Len(s) >= Len(suffix) /\ SubSeq(s, Len(s) - Len(suffix) + 1, Len(s)) = suffix

\* the regular-expression class \s
IsSpace(c) == c \in {" ", "\t", "\n", "\r", "\f"}

\* the regular-expression class \w
IsWordChar(c) ==
    c \in {"a", "b", "c", "d", "e", "f", "g", "h", "i", "j", "k", "l", "m",
           "n", "o", "p", "q", "r", "s", "t", "u", "v", "w", "x", "y", "z",
           "A", "B", "C", "D", "E", "F", "G", "H", "I", "J", "K", "L", "M",
           "N", "O", "P", "Q", "R", "S", "T", "U", "V", "W", "X", "Y", "Z",
           "0", "1", "2", "3", "4", "5", "6", "7", "8", "9", "_"}

\* the back-quote character: a TLA+ string cannot hold it, so "~" stands for
\* it in every text of this module (no sample text uses "~" otherwise)
backquote == "~"

IsQuote(c) == c \in {"\"", "'", backquote}

RECURSIVE skipSpacesFwd(_, _)
skipSpacesFwd(s, i) == IF i < Len(s) /\ IsSpace(charAt(s, i)) THEN skipSpacesFwd(s, i + 1) ELSE i

RECURSIVE skipSpacesBwd(_, _)
\* the least j <= i such that s[j..i) is white space
skipSpacesBwd(s, i) == IF i > 0 /\ IsSpace(charAt(s, i - 1)) THEN skipSpacesBwd(s, i - 1) ELSE i

\* s.trim()
trim(s) ==
    LET a == skipSpacesFwd(s, 0)
        b == skipSpacesBwd(s, Len(s))
    IN IF a >= b THEN "" ELSE substring(s, a, b)

\* the lower-case form of the letters the named-argument pattern tests
toLowerCase(c) ==
    CASE c = "S" -> "s" [] c = "Q" -> "q" [] c = "L" -> "l" [] c = "T" -> "t"
      [] c = "A" -> "a" [] c = "E" -> "e" [] c = "M" -> "m" [] c = "N" -> "n"
      [] OTHER -> c

RECURSIVE lowerString(_)
lowerString(s) == IF Len(s) = 0 THEN "" ELSE toLowerCase(charAt(s, 0)) \o lowerString(substring(s, 1, Len(s)))

(***************************************************************************)
(* vscode.TextDocument / Position / Range                                  *)
(***************************************************************************)

Pos(l, c) == [line |-> l, character |-> c]

Range(s, e) == [start |-> s, end |-> e]

isBefore(p, q) == p.line < q.line \/ (p.line = q.line /\ p.character < q.character)

isAfterOrEqual(p, q) == ~isBefore(p, q)

lineCount(doc) == Len(doc)

lineAt(doc, n) == doc[n + 1]

RECURSIVE joinFrom(_, _)
joinFrom(doc, n) ==
    IF n > Len(doc) THEN ""
    ELSE IF n = Len(doc) THEN doc[n]
    ELSE doc[n] \o "\n" \o joinFrom(doc, n + 1)

\* document.getText()
fullText(doc) == joinFrom(doc, 1)

RECURSIVE lineOffset(_, _)
\* the offset of the first character of line n
lineOffset(doc, n) == IF n <= 0 THEN 0 ELSE lineOffset(doc, n - 1) + Len(doc[n]) + 1

\* document.offsetAt(position)
offsetAt(doc, p) == lineOffset(doc, p.line) + p.character

RECURSIVE positionFrom(_, _, _)
positionFrom(doc, n, off) ==
    IF n >= Len(doc) - 1 \/ off <= Len(doc[n + 1])
    THEN Pos(n, Max(0, Min(off, Len(doc[n + 1]))))
    ELSE positionFrom(doc, n + 1, off - Len(doc[n + 1]) - 1)

\* document.positionAt(offset)
positionAt(doc, off) == positionFrom(doc, 0, Max(0, off))

\* document.getText(range)
getText(doc, r) == substring(fullText(doc), offsetAt(doc, r.start), offsetAt(doc, r.end))

RECURSIVE splitFrom(_, _, _)
splitFrom(text, from, i) ==
    IF i >= Len(text) THEN <<substring(text, from, Len(text))>>
    ELSE IF charAt(text, i) = "\n" THEN <<substring(text, from, i)>> \o splitFrom(text, i + 1, i + 1)
    ELSE splitFrom(text, from, i + 1)

\* the lines of a text, as the editor's document model holds them
splitLines(text) == splitFrom(text, 0, 0)

(***************************************************************************)
(* ParenMatcher                                                            *)
(***************************************************************************)

\* one step of the quote tracking the scanners share: <<inString, stringChar>>
\* after reading char, given the quote characters that open a string
trackQuote(quotes, char, prevChar, inString, stringChar) ==
    IF char \in quotes /\ prevChar # "\\"
    THEN IF ~inString THEN <<TRUE, char>>
         ELSE IF char = stringChar THEN <<FALSE, stringChar>>
         ELSE <<inString, stringChar>>
    ELSE <<inString, stringChar>>

prevCharOf(text, i) == IF i > 0 THEN charAt(text, i - 1) ELSE ""

AllQuotes == {"\"", "'", backquote}

RECURSIVE closeParenLoop(_, _, _, _, _)
closeParenLoop(text, i, depth, inString, stringChar) ==
    IF i >= Len(text) THEN -1
    ELSE LET char == charAt(text, i)
             q == trackQuote(AllQuotes, char, prevCharOf(text, i), inString, stringChar)
         IN IF ~q[1] /\ char = ")" /\ depth = 1 THEN i
            ELSE closeParenLoop(text, i + 1,
                                IF q[1] THEN depth
                                ELSE IF char = "(" THEN depth + 1
                                ELSE IF char = ")" THEN depth - 1
                                ELSE depth,
                                q[1], q[2])

\* a search that stops at the first ")" after openPos, nested or not
findFirstCloseParen(text, openPos) ==
    LET closing == {i \in (openPos + 1)..(Len(text) - 1) : charAt(text, i) = ")"}
    IN IF closing = {} THEN -1 ELSE CHOOSE i \in closing : \A k \in closing : i <= k

findMatchingCloseParen(text, openPos) == closeParenLoop(text, openPos + 1, 1, FALSE, "")

RECURSIVE parenDepthLoop(_, _, _, _, _, _)
parenDepthLoop(text, i, stop, depth, inString, stringChar) ==
    IF i >= stop THEN depth
    ELSE LET char == charAt(text, i)
             q == trackQuote(AllQuotes, char, prevCharOf(text, i), inString, stringChar)
         IN parenDepthLoop(text, i + 1, stop,
                           IF q[1] THEN depth
                           ELSE IF char = "(" THEN depth + 1
                           ELSE IF char = ")" THEN depth - 1
                           ELSE depth,
                           q[1], q[2])

\* a depth that counts the parentheses inside strings as well
isInsideParensCountingQuoted(text, pos) ==
    Cardinality({i \in 0..(pos - 1) : charAt(text, i) = "("})
        > Cardinality({i \in 0..(pos - 1) : charAt(text, i) = ")"})

\* a check that answers false for every offset beyond the end of the text
isInsideParensWithinText(text, pos) ==
    pos <= Len(text) /\ parenDepthLoop(text, 0, pos, 0, FALSE, "") > 0

isInsideParens(text, pos) == parenDepthLoop(text, 0, pos, 0, FALSE, "") > 0

(***************************************************************************)
(* Recognised call names and parsing limits                                *)
(***************************************************************************)

DBI_FUNCTIONS ==
    <<"dbExecute", "dbGetQuery", "dbSendQuery", "dbSendStatement",
      "DBI::dbExecute", "DBI::dbGetQuery", "DBI::dbSendQuery", "DBI::dbSendStatement",
      "dbplyr::sql", "sql">>

GLUE_FUNCTIONS ==
    <<"glue", "glue_sql", "glue_data", "glue_data_sql",
      "glue::glue", "glue::glue_sql", "glue::glue_data", "glue::glue_data_sql">>

DUCKPLYR_FUNCTIONS ==
    <<"read_sql_duckdb", "db_exec", "duckplyr::read_sql_duckdb", "duckplyr::db_exec">>

SQL_FUNCTION_NAMES == DBI_FUNCTIONS \o GLUE_FUNCTIONS \o DUCKPLYR_FUNCTIONS

CONTEXT_LINE_LOOKBACK == 10

NAMED_ARG_LOOKBACK == 50

MAX_FUNCTION_MATCHES == 1000

MAX_PAREN_SEARCH_DISTANCE == 1000

MAX_FUNCTION_CALL_LENGTH == 10000

MAX_DOCUMENT_SIZE == 1000000

SeqToSet(s) == {s[i] : i \in 1..Len(s)}

(***************************************************************************)
(* SQLStringDetector: comments and call context                            *)
(***************************************************************************)

null == [isNull |-> TRUE]

RECURSIVE commentLoop(_, _, _, _, _)
commentLoop(lineText, charPosition, i, inString, stringChar) ==
    IF i >= Len(lineText) THEN FALSE
    ELSE LET char == charAt(lineText, i)
             q == trackQuote(AllQuotes, char, prevCharOf(lineText, i), inString, stringChar)
         IN IF ~q[1] /\ char = "#" THEN charPosition >= i
            ELSE commentLoop(lineText, charPosition, i + 1, q[1], q[2])

isInsideComment(lineText, charPosition) == commentLoop(lineText, charPosition, 0, FALSE, "")

\* the index just after the match of  (?<!\w)name\s*\(  at index i, or -1
callMatchEnd(text, name, i) ==
    IF /\ startsWithAt(text, name, i)
       /\ ~(i > 0 /\ IsWordChar(charAt(text, i - 1)))
    THEN LET p == skipSpacesFwd(text, i + Len(name))
         IN IF charAt(text, p) = "(" THEN p + 1 ELSE -1
    ELSE -1

RECURSIVE validateLoop(_, _, _, _)
\* the while loop over pattern.exec(text), lastIndex = from
validateLoop(text, funcName, pos, from) ==
    IF from > Len(text) THEN FALSE
    ELSE LET e == callMatchEnd(text, funcName, from)
         IN IF e = -1 THEN validateLoop(text, funcName, pos, from + 1)
            ELSE LET openParenPos == e - 1
                     closeParenPos == findMatchingCloseParen(text, openParenPos)
                 IN IF pos < openParenPos
                    THEN validateLoop(text, funcName, pos, e)
                    ELSE IF closeParenPos = -1 THEN TRUE
                    ELSE IF pos <= closeParenPos THEN TRUE
                    ELSE validateLoop(text, funcName, pos, e)

\* a validation that takes every call that opens before the position as
\* containing it, closed or not
findFunctionAndValidatePositionUnclosed(text, funcName, pos) ==
    \E i \in 0..Len(text) :
        /\ callMatchEnd(text, funcName, i) # -1
        /\ pos >= callMatchEnd(text, funcName, i) - 1

findFunctionAndValidatePosition(text, funcName, pos) == validateLoop(text, funcName, pos, 0)

RECURSIVE firstMatching(_, _, _, _)
firstMatching(names, i, text, pos) ==
    IF i > Len(names) THEN ""
    ELSE IF findFunctionAndValidatePosition(text, names[i], pos) THEN names[i]
    ELSE firstMatching(names, i + 1, text, pos)

RECURSIVE gatherLines(_, _, _)
gatherLines(doc, i, last) == IF i > last THEN "" ELSE lineAt(doc, i) \o "\n" \o gatherLines(doc, i + 1, last)

\* the recognised call name the string starting at pos belongs to, or ""
findDBIFunctionContext(doc, pos) ==
    LET currentLine == pos.line
        startLine == Max(0, currentLine - CONTEXT_LINE_LOOKBACK)
        searchText == gatherLines(doc, startLine, currentLine)
        stringPosInSearch == (lineOffset(doc, pos.line) - lineOffset(doc, startLine)) + pos.character
        dbi == firstMatching(DBI_FUNCTIONS, 1, searchText, stringPosInSearch)
        glue == firstMatching(GLUE_FUNCTIONS, 1, searchText, stringPosInSearch)
        duckplyr == firstMatching(DUCKPLYR_FUNCTIONS, 1, searchText, stringPosInSearch)
    IN IF dbi # "" THEN dbi
       ELSE IF glue # "" THEN glue
       ELSE duckplyr

isGlueFunction(functionName) == functionName \in SeqToSet(GLUE_FUNCTIONS)

RECURSIVE replaceEscape(_, _, _)
\* sql.replace(/\\x/g, to): every backslash followed by x becomes to
replaceEscape(s, x, to) ==
    IF Len(s) = 0 THEN ""
    ELSE IF Len(s) >= 2 /\ charAt(s, 0) = "\\" /\ charAt(s, 1) = x
         THEN to \o replaceEscape(substring(s, 2, Len(s)), x, to)
    ELSE charAt(s, 0) \o replaceEscape(substring(s, 1, Len(s)), x, to)

cleanSQLString(sql) ==
    trim(replaceEscape(replaceEscape(replaceEscape(replaceEscape(sql, "\"", "\""), "'", "'"), "n", "\n"), "t", "\t"))


(***************************************************************************)
(* SQLRegionFinder: the string literals inside recognised calls            *)
(***************************************************************************)

RECURSIVE findOpenParen(_, _, _)
findOpenParen(text, i, searchCount) ==
    IF i < Len(text) /\ charAt(text, i) # "(" /\ searchCount < MAX_PAREN_SEARCH_DISTANCE
    THEN findOpenParen(text, i + 1, searchCount + 1)
    ELSE <<i, searchCount>>

RECURSIVE callEndLoop(_, _, _, _, _, _)
\* the offset just after the closing parenthesis of the call, or -1
callEndLoop(text, i, openParenOffset, depth, inString, stringChar) ==
    IF ~(i < Len(text) /\ (i - openParenOffset) < MAX_FUNCTION_CALL_LENGTH) THEN -1
    ELSE LET char == charAt(text, i)
             q == trackQuote(AllQuotes, char, prevCharOf(text, i), inString, stringChar)
         IN IF ~q[1] /\ char = ")" /\ depth = 0 THEN i + 1
            ELSE callEndLoop(text, i + 1, openParenOffset,
                             IF q[1] THEN depth
                             ELSE IF char = "(" THEN depth + 1
                             ELSE IF char = ")" THEN depth - 1
                             ELSE depth,
                             q[1], q[2])

\* the offsets <<start, end>> of a call from its name to just after its
\* closing parenthesis, or <<-1, -1>>
findFunctionCallRange(text, startOffset) ==
    LET f == findOpenParen(text, startOffset, 0)
    IN IF f[1] >= Len(text) \/ f[2] >= MAX_PAREN_SEARCH_DISTANCE THEN <<-1, -1>>
       ELSE LET e == callEndLoop(text, f[1] + 1, f[1] + 1, 0, FALSE, "")
            IN IF e = -1 THEN <<-1, -1>> ELSE <<startOffset, e>>

RECURSIVE closingQuote(_, _, _)
closingQuote(text, j, quoteChar) ==
    IF j >= Len(text) THEN -1
    ELSE IF charAt(text, j) = quoteChar /\ charAt(text, j - 1) # "\\" THEN j
    ELSE closingQuote(text, j + 1, quoteChar)

RECURSIVE stringsLoop(_, _, _)
\* the content offsets <<start, end>> of the string literals of text, shifted
\* by startOffset
stringsLoop(text, startOffset, i) ==
    IF i >= Len(text) THEN <<>>
    ELSE IF IsQuote(charAt(text, i))
         THEN LET j == closingQuote(text, i + 1, charAt(text, i))
              IN IF j = -1 THEN stringsLoop(text, startOffset, i + 1)
                 ELSE <<<<startOffset + i + 1, startOffset + j>>>> \o stringsLoop(text, startOffset, j + 1)
    ELSE stringsLoop(text, startOffset, i + 1)

\* document.offsetAt keeps the start of the range within the text
findStringsInRange(text, callRange) ==
    stringsLoop(substring(text, callRange[1], callRange[2]), Max(0, Min(callRange[1], Len(text))), 0)

RECURSIVE lastNewlineBefore(_, _)
lastNewlineBefore(text, i) == IF i <= 0 THEN 0 ELSE IF charAt(text, i - 1) = "\n" THEN i ELSE lastNewlineBefore(text, i - 1)

\* lineBeforeFunc.trim().startsWith('#')
callIsCommentedOut(text, funcStartOffset) ==
    charAt(trim(substring(text, lastNewlineBefore(text, funcStartOffset), funcStartOffset)), 0) = "#"

RECURSIVE callsOf(_, _, _, _)
\* the strings of the calls of one name, in the order of the matches
callsOf(text, funcName, from, matchCount) ==
    IF from > Len(text) \/ matchCount >= MAX_FUNCTION_MATCHES THEN <<>>
    ELSE LET e == callMatchEnd(text, funcName, from)
         IN IF e = -1 THEN callsOf(text, funcName, from + 1, matchCount)
            ELSE LET callRange == findFunctionCallRange(text, from)
                     found == IF callIsCommentedOut(text, from) \/ callRange[1] = -1 THEN <<>>
                              ELSE findStringsInRange(text, callRange)
                 IN found \o callsOf(text, funcName, e, matchCount + 1)

RECURSIVE stringsOfNames(_, _, _)
stringsOfNames(text, names, i) ==
    IF i > Len(names) THEN <<>>
    ELSE callsOf(text, names[i], 0, 0) \o stringsOfNames(text, names, i + 1)

\* the ranges of the string literals inside the parentheses of recognised calls
findSQLFunctionStrings(doc) ==
    LET text == fullText(doc)
        found == IF Len(text) > MAX_DOCUMENT_SIZE THEN <<>> ELSE stringsOfNames(text, SQL_FUNCTION_NAMES, 1)
    IN [k \in 1..Len(found) |-> Range(positionAt(doc, found[k][1]), positionAt(doc, found[k][2]))]

(***************************************************************************)
(* SQLStringDetector.isInsideSQLString                                     *)
(***************************************************************************)

\* the trimmed text of the look-back window before the opening quote
textBeforeQuote(doc, stringRange) ==
    LET start == stringRange.start
        openQuotePos == Pos(start.line, Max(0, start.character - 1))
        lookbackStart ==
            IF start.character >= NAMED_ARG_LOOKBACK
            THEN Pos(start.line, start.character - NAMED_ARG_LOOKBACK)
            ELSE IF start.line > 0
                 THEN Pos(start.line - 1,
                          Max(0, Len(lineAt(doc, start.line - 1)) - (NAMED_ARG_LOOKBACK - start.character)))
            ELSE Pos(0, 0)
    IN trim(getText(doc, Range(lookbackStart, openQuotePos)))

\* /(statement|sql)\s*=$/i
isSqlParameter(before) ==
    /\ endsWith(before, "=")
    /\ LET j == skipSpacesBwd(before, Len(before) - 1)
           name == lowerString(substring(before, j - 9, j))
       IN endsWith(name, "statement") \/ endsWith(name, "sql")

SQLStringContext(doc, stringRange, functionContext) ==
    [isNull |-> FALSE,
     query |-> cleanSQLString(getText(doc, stringRange)),
     range |-> stringRange,
     functionName |-> functionContext,
     isMultiline |-> stringRange.start.line # stringRange.end.line,
     isGlueString |-> isGlueFunction(functionContext)]

\* a containment test that takes the position of the closing quote as inside
containsPositionClosed(stringRange, pos) ==
    isAfterOrEqual(pos, stringRange.start) /\ ~isBefore(stringRange.end, pos)

\* the containment test of the loop over the ranges
containsPosition(stringRange, pos) ==
    isAfterOrEqual(pos, stringRange.start) /\ isBefore(pos, stringRange.end)

RECURSIVE rangeLoop(_, _, _, _)
rangeLoop(doc, pos, allSQLRanges, k) ==
    IF k > Len(allSQLRanges) THEN null
    ELSE LET stringRange == allSQLRanges[k]
         IN IF containsPosition(stringRange, pos)
            THEN LET functionContext == findDBIFunctionContext(doc, stringRange.start)
                     before == textBeforeQuote(doc, stringRange)
                 IN IF functionContext = "" THEN rangeLoop(doc, pos, allSQLRanges, k + 1)
                    ELSE IF endsWith(before, "=") /\ (isGlueFunction(functionContext) \/ ~isSqlParameter(before))
                         THEN null
                    ELSE SQLStringContext(doc, stringRange, functionContext)
            ELSE rangeLoop(doc, pos, allSQLRanges, k + 1)

\* a detector that answers from the regions the cache holds
isInsideSQLStringOfCache(doc, pos) ==
    IF \E u \in DOMAIN cache : \E k \in 1..Len(cache[u].regions) :
            containsPosition(cache[u].regions[k].range, pos)
    THEN rangeLoop(doc, pos, findSQLFunctionStrings(doc), 1)
    ELSE null

isInsideSQLString(doc, pos) ==
    IF isInsideComment(lineAt(doc, pos.line), pos.character) THEN null
    ELSE rangeLoop(doc, pos, findSQLFunctionStrings(doc), 1)


(***************************************************************************)
(* GlueInterpolationHandler                                                *)
(***************************************************************************)

GlueQuotes == {"\"", "'"}

RECURSIVE braceDepthLoop(_, _, _, _, _, _, _)
braceDepthLoop(quotes, sqlString, i, stop, depth, inString, stringChar) ==
    IF i >= stop THEN depth
    ELSE LET char == charAt(sqlString, i)
             q == trackQuote(quotes, char, prevCharOf(sqlString, i), inString, stringChar)
         IN braceDepthLoop(quotes, sqlString, i + 1, stop,
                           IF q[1] THEN depth
                           ELSE IF char = "{" THEN depth + 1
                           ELSE IF char = "}" THEN depth - 1
                           ELSE depth,
                           q[1], q[2])

\* an interpolation check that counts the braces inside quoted sub-strings too
isInsideInterpolationCountingQuoted(sqlString, offset) ==
    braceDepthLoop({}, sqlString, 0, offset, 0, FALSE, "") > 0

isInsideInterpolation(sqlString, offset) ==
    braceDepthLoop(GlueQuotes, sqlString, 0, offset, 0, FALSE, "") > 0

\* a placeholder of another length
PLACEHOLDER_LONGER == "PLACEHOLDER_VALUE_2"

PLACEHOLDER == "PLACEHOLDER_VALUE"

RECURSIVE stripLoop(_, _, _, _, _, _, _)
\* the for loop of stripInterpolations from index i on
stripLoop(sqlString, i, out, depth, inString, stringChar, interpolationStart) ==
    IF i >= Len(sqlString) THEN out
    ELSE LET char == charAt(sqlString, i)
             q == trackQuote(GlueQuotes, char, prevCharOf(sqlString, i), inString, stringChar)
             opens == ~q[1] /\ char = "{"
             closes == ~q[1] /\ char = "}"
             newDepth == IF opens THEN depth + 1 ELSE IF closes THEN depth - 1 ELSE depth
             newStart == IF opens /\ depth = 0 THEN i ELSE interpolationStart
         IN IF closes /\ newDepth = 0 /\ newStart # -1
            THEN stripLoop(sqlString, i + 1, out \o PLACEHOLDER, newDepth, q[1], q[2], -1)
            ELSE stripLoop(sqlString, i + 1, IF newDepth = 0 THEN out \o char ELSE out,
                           newDepth, q[1], q[2], newStart)

\* a strip that returns its input as it is
stripInterpolationsVerbatim(sqlString) == sqlString

stripInterpolations(sqlString) == stripLoop(sqlString, 0, "", 0, FALSE, "", -1)

(***************************************************************************)
(* DocumentCache                                                           *)
(*                                                                         *)
(* The Map of the cache is a function whose domain is the set of its keys; *)
(* an operation that changes the map returns the new map, and a lookup     *)
(* returns both the new map and its result. t is the value of Date.now().  *)
(* The expiry is configuration; nothing below depends on its value.        *)
(***************************************************************************)

CACHE_EXPIRY_MS == 300000

\* a result that is not null
some(x) == [isNull |-> FALSE, value |-> x]

EmptyMap == [k \in {} |-> null]

mapDelete(c, key) == [k \in (DOMAIN c) \ {key} |-> c[k]]

mapSet(c, key, entry) == [k \in (DOMAIN c) \cup {key} |-> IF k = key THEN entry ELSE c[k]]

getDocumentKey(doc) == doc.uri

\* a lookup that never looks at the version of the entry
getCachedRegionsAnyVersion(c, doc, t) ==
    LET key == getDocumentKey(doc)
    IN IF key \notin DOMAIN c THEN [cache |-> c, regions |-> null]
       ELSE IF t - c[key].parseTimestamp > CACHE_EXPIRY_MS
            THEN [cache |-> mapDelete(c, key), regions |-> null]
       ELSE [cache |-> c, regions |-> some(c[key].regions)]

\* a lookup that never looks at the age of the entry
getCachedRegionsAnyAge(c, doc, t) ==
    LET key == getDocumentKey(doc)
    IN IF key \notin DOMAIN c THEN [cache |-> c, regions |-> null]
       ELSE IF c[key].version # doc.version
            THEN [cache |-> mapDelete(c, key), regions |-> null]
       ELSE [cache |-> c, regions |-> some(c[key].regions)]

getCachedRegions(c, doc, t) ==
    LET key == getDocumentKey(doc)
    IN IF key \notin DOMAIN c THEN [cache |-> c, regions |-> null]
       ELSE IF c[key].version # doc.version
            THEN [cache |-> mapDelete(c, key), regions |-> null]
       ELSE IF t - c[key].parseTimestamp > CACHE_EXPIRY_MS
            THEN [cache |-> mapDelete(c, key), regions |-> null]
       ELSE [cache |-> c, regions |-> some(c[key].regions)]

\* the array is stored as it is passed: the entry holds the caller's array
updateCache(c, doc, regions, t) ==
    mapSet(c, getDocumentKey(doc),
           [version |-> doc.version, regions |-> regions, parseTimestamp |-> t])

\* an invalidation that empties the whole cache
invalidateDocumentAll(c, doc) == EmptyMap

invalidateDocument(c, doc) == mapDelete(c, getDocumentKey(doc))

\* vscode.Range.contains(position): both ends belong to the range
rangeContains(range, pos) == isAfterOrEqual(pos, range.start) /\ ~isBefore(range.end, pos)

RECURSIVE regionLoop(_, _, _)
regionLoop(regions, pos, k) ==
    IF k > Len(regions) THEN null
    ELSE IF rangeContains(regions[k].range, pos) THEN some(regions[k])
    ELSE regionLoop(regions, pos, k + 1)

findRegionAtPosition(c, doc, pos, t) ==
    LET got == getCachedRegions(c, doc, t)
    IN IF got.regions.isNull THEN [cache |-> got.cache, region |-> null]
       ELSE [cache |-> got.cache, region |-> regionLoop(got.regions.value, pos, 1)]

getAllRegions(c, doc, t) ==
    LET got == getCachedRegions(c, doc, t)
    IN IF ~got.regions.isNull THEN [cache |-> got.cache, regions |-> got.regions.value]
       ELSE [cache |-> got.cache, regions |-> <<>>]

(***************************************************************************)
(* SQLStringDetector.getStringRangeAtPosition                              *)
(***************************************************************************)

RECURSIVE openQuoteLoop(_, _)
\* the loop from charPos down to 0: the index of the opening quote, or -1
openQuoteLoop(lineText, i) ==
    IF i < 0 THEN -1
    ELSE IF IsQuote(charAt(lineText, i)) /\ ~(i > 0 /\ charAt(lineText, i - 1) = "\\") THEN i
    ELSE openQuoteLoop(lineText, i - 1)

RECURSIVE closeQuoteLoopAnyQuote(_, _, _)
\* a search that takes an escaped quote for the closing quote as well
closeQuoteLoopAnyQuote(searchLineText, quoteChar, i) ==
    IF i >= Len(searchLineText) THEN -1
    ELSE IF charAt(searchLineText, i) = quoteChar THEN i
    ELSE closeQuoteLoopAnyQuote(searchLineText, quoteChar, i + 1)

RECURSIVE closeQuoteLoop(_, _, _)
\* the loop over one line: the index of the closing quote in it, or -1
closeQuoteLoop(searchLineText, quoteChar, i) ==
    IF i >= Len(searchLineText) THEN -1
    ELSE IF /\ charAt(searchLineText, i) = quoteChar
            /\ ~(i > 0 /\ charAt(searchLineText, i - 1) = "\\")
         THEN i
    ELSE closeQuoteLoop(searchLineText, quoteChar, i + 1)

RECURSIVE closingLineLoop(_, _, _, _)
\* the loop over the lines from the position's line on
closingLineLoop(doc, pos, openQuote, currentLine) ==
    IF currentLine >= lineCount(doc) THEN null
    ELSE LET lineText == lineAt(doc, pos.line)
             searchLineText ==
                 IF currentLine = pos.line
                 THEN substring(lineText, openQuote + 1, Len(lineText))
                 ELSE lineAt(doc, currentLine)
             closeQuote == closeQuoteLoop(searchLineText, charAt(lineText, openQuote), 0)
         IN IF closeQuote # -1
            THEN some(Range(Pos(pos.line, openQuote + 1),
                            IF currentLine = pos.line
                            THEN Pos(currentLine, openQuote + 1 + closeQuote)
                            ELSE Pos(currentLine, closeQuote)))
            ELSE closingLineLoop(doc, pos, openQuote, currentLine + 1)

getStringRangeAtPosition(doc, pos) ==
    LET openQuote == openQuoteLoop(lineAt(doc, pos.line), pos.character)
    IN IF openQuote = -1 THEN null
       ELSE closingLineLoop(doc, pos, openQuote, pos.line)

(***************************************************************************)
(* The R documents the editor opens.  A document is written from a record  *)
(* that names its parts, so that what the R source means (which call       *)
(* encloses the string, under which parameter name, where the string and   *)
(* the comment start) is known from its construction, not from a scan.     *)
(*   preamble  lines before the call (each ends with a newline)            *)
(*   outer     a call wrapped around the call ("" for none)                *)
(*   call      the name of the call the string is an argument of           *)
(*   argLines  lines between the call's "(" and the opening quote          *)
(*             (0: the string is on the line of the call)                  *)
(*   param     the parameter name of the string ("" for positional)        *)
(*   body      the content of the string                                   *)
(*   trailer   text after the closing parenthesis, on its line             *)
(***************************************************************************)

MaxArgLines == 2

MaxBodyLines == 2

RECURSIVE repeat(_, _)
repeat(s, n) == IF n <= 0 THEN "" ELSE s \o repeat(s, n - 1)

Source(preamble, outer, call, argLines, param, body, trailer) ==
    [preamble |-> preamble, outer |-> outer, call |-> call, argLines |-> argLines,
     param |-> param, body |-> body, trailer |-> trailer]

\* the text up to and including the opening quote of the string
TextBefore(s) ==
    s.preamble
    \o (IF s.outer = "" THEN "" ELSE s.outer \o "(con, ")
    \o s.call \o "("
    \o (IF s.argLines = 0 THEN "con, " ELSE "\n" \o repeat("  con,\n", s.argLines - 1) \o "  ")
    \o (IF s.param = "" THEN "" ELSE s.param \o " = ")
    \o "\""

\* the text from the closing quote of the string on
TextAfter(s) ==
    "\""
    \o (IF s.argLines = 0 THEN "" ELSE "\n")
    \o ")"
    \o (IF s.outer = "" THEN "" ELSE ")")
    \o s.trailer

MakeText(s) == TextBefore(s) \o s.body \o TextAfter(s)

\* a string of n content lines, opened and closed on lines of their own
MultiLine(line, n) == "\n" \o repeat(line \o "\n", n)

DirectCalls == {"dbGetQuery", "sql", "read_sql_duckdb"}

GlueCalls == {"glue_sql"}

OtherCalls == {"paste"}

ParamNames == {"", "sql", "statement", "prudence", "mysql"}

\* one-line calls: every call, parameter name and wrapping
ArgumentSources ==
    {Source("", o, c, 0, p, b, "") :
        o \in {"", "dbGetQuery"}, c \in DirectCalls \cup GlueCalls \cup OtherCalls,
        p \in ParamNames, b \in {"SEL"}}

\* calls laid out over several lines, with strings of several lines
LayoutSources ==
    {Source("", "", c, a, "", b, t) :
        c \in {"dbGetQuery", "glue_sql"}, a \in 0..MaxArgLines,
        b \in {"", "a {x} b"} \cup {MultiLine(l, n) : l \in {" a", " #1 b"}, n \in 1..MaxBodyLines},
        t \in {"", " # sql(\"x\")"}}

\* a comment line before the call
CommentSources ==
    {Source("# sql(\"x\")\n", "", c, 0, "", "SEL", "") : c \in {"dbGetQuery", "paste"}}

\* names that contain a recognised name as a part of a longer R identifier
LongerCalls == {"madeup_sql", "my.sql", "sqlx"}

\* calls of functions whose name contains a recognised name
IdentifierSources == {Source("", "", c, 0, "", "SEL", "") : c \in LongerCalls}

\* complete, closed recognised calls before an unrecognised call: on the line
\* before it and on its own line
ClosedCalls == {"sql(\"a\")\n", "x <- dbGetQuery(con, \"a\"); "}

PrecededSources == {Source(p, "", c, 0, "", "SEL", "") : p \in ClosedCalls, c \in OtherCalls}

Sources ==
    ArgumentSources \cup LayoutSources \cup CommentSources
        \cup IdentifierSources \cup PrecededSources

Positions(doc) == UNION {{Pos(l, c) : c \in 0..Len(lineAt(doc, l))} : l \in 0..(lineCount(doc) - 1)}

(***************************************************************************)
(* The documents of the region cache                                       *)
(***************************************************************************)

MaxVersion == 2

MaxClock == 1

\* a.R is a small document, big.R one of more than MAX_DOCUMENT_SIZE characters
Uris == {"a.R", "big.R"}

LanguageIds == {"r", "plaintext"}

\* the vscode.TextDocument of a uri: its uri and its version
TextDocument(u, v) == [uri |-> u, version |-> v]

\* the lines of a.R, which change with every edit
TextOf(v) ==
    IF v % 2 = 1 THEN <<"dbGetQuery(con, \"SEL\")">> ELSE <<"x <- paste(con, \"SEL\")">>

\* document.getText().length
textLength(u, v) == IF u = "big.R" THEN MAX_DOCUMENT_SIZE + 1 ELSE Len(fullText(TextOf(v)))

Region1 ==
    [range |-> Range(Pos(0, 17), Pos(0, 20)), functionName |-> "dbGetQuery",
     isMultiline |-> FALSE, isGlueString |-> FALSE, sqlText |-> "SEL"]

\* the arrays of regions a caller stores
RegionSeqs == {<<>>, <<Region1>>}

LookupPositions == {Pos(0, 3), Pos(0, 17), Pos(0, 20)}

\* the values of Date.now(): around the start and around one expiry later
Times == {a * CACHE_EXPIRY_MS + b : a \in 0..MaxClock, b \in 0..MaxClock}

\* no call of the cache has been made since the last other step
noCall == [op |-> "none", uri |-> "", value |-> null]

(***************************************************************************)
(* String literals: a literal is written from the text before it, its      *)
(* quote character, its content and the text after it.                     *)
(***************************************************************************)

MaxPieces == 3

Literal(before, quote, content, after) ==
    [before |-> before, quote |-> quote, content |-> content, after |-> after]

NoLiteral == Literal("", "", "", "")

\* what a content is made of: a letter, the escaped quote character, a newline
Pieces(q) == {"a", "\\" \o q, "\n"}

RECURSIVE Contents(_, _)
Contents(q, n) ==
    IF n = 0 THEN {""}
    ELSE LET shorter == Contents(q, n - 1)
         IN shorter \cup {c \o x : c \in shorter, x \in Pieces(q)}

\* the literal alone in a call, and after a string of the same quote character
Befores(q) == {"f(", "f(" \o q \o "k" \o q \o ", "}

Literals ==
    UNION {{Literal(b, q, c, ")") : b \in Befores(q), c \in Contents(q, MaxPieces)} :
              q \in AllQuotes}

LiteralText(l) == l.before \o l.quote \o l.content \o l.quote \o l.after

(***************************************************************************)
(* The editor: open a document, move the cursor, ask for completions       *)
(***************************************************************************)

\* no document is open
NoSource == Source("", "", "", 0, "", "", "")

opened == src # NoSource

OpenDocument(s) ==
    /\ ~opened
    /\ document' = splitLines(MakeText(s))
    /\ src' = s
    /\ position' = Pos(0, 0)
    /\ pc' = "idle"
    /\ result' = null
    /\ UNCHANGED exceptDetector

CloseDocument ==
    /\ opened
    /\ document' = <<"">>
    /\ src' = NoSource
    /\ position' = Pos(0, 0)
    /\ pc' = "idle"
    /\ result' = null
    /\ UNCHANGED exceptDetector

MoveCursor(p) ==
    /\ opened
    /\ p # position
    /\ position' = p
    /\ pc' = "idle"
    /\ result' = null
    /\ UNCHANGED <<document, src, exceptDetector>>

\* the completion provider asks the detector about the cursor position
Classify ==
    /\ opened
    /\ pc = "idle"
    /\ result' = isInsideSQLString(document, position)
    /\ pc' = "done"
    /\ UNCHANGED <<document, src, position, exceptDetector>>

(***************************************************************************)
(* SchemaWatcher                                                           *)
(*                                                                         *)
(* The tables of the R session and of the schema provider are maps from a  *)
(* table name to its column count. A timer is TRUE while it is set and has *)
(* not fired; activityListeners is TRUE once start() has registered a save *)
(* listener (every further one only sets the same debounce timer anew).    *)
(* checks is the set of the places where calls of checkForChanges wait:    *)
(* calls that wait at the same place with the same signature go on         *)
(* together. The schema provider is used through getConnectionName ("" if  *)
(* no connection is selected), getTableNames / getColumns and              *)
(* refreshSchema.                                                          *)
(***************************************************************************)

\* the column counts a table can have
ColumnCounts == {1, 2}


\* the table names, in the order of localeCompare
TableNames == <<"t">>

TableMaps == UNION {[S -> ColumnCounts] : S \in SUBSET {TableNames[k] : k \in 1..Len(TableNames)}}

RECURSIVE joinEntries(_, _, _)
\* the entries name:count of the tables from the k-th name on, joined by |
joinEntries(tables, k, first) ==
    IF k > Len(TableNames) THEN ""
    ELSE IF TableNames[k] \notin DOMAIN tables THEN joinEntries(tables, k + 1, first)
    ELSE (IF first THEN "" ELSE "|") \o TableNames[k] \o ":" \o ToString(tables[TableNames[k]])
             \o joinEntries(tables, k + 1, FALSE)

\* a hash that tells only whether there are tables
createSignatureHashOfNames(tables) == IF DOMAIN tables = {} THEN "" ELSE "tables"

createSignatureHash(tables) == joinEntries(tables, 1, TRUE)

SchemaSignature(tables) == [tables |-> tables, hash |-> createSignatureHash(tables)]

signaturesMatch(sig1, sig2) == sig1.hash = sig2.hash

\* the places where a call of checkForChanges waits: for the signature that
\* R sends, or for the full refresh it asked for after fetching newSignature
Fetching == [at |-> "fetchSchemaSignature"]

Refreshing(newSignature) == [at |-> "performFullRefresh", newSignature |-> newSignature]

CheckStages == {Fetching} \cup {Refreshing(SchemaSignature(tables)) : tables \in TableMaps}

NoChecks == {}

inFlight(c) == Cardinality(c)

(***************************************************************************)
(* extension.ts: the schema providers                                      *)
(*                                                                         *)
(* A provider object is an index into providers; 0 stands for undefined.   *)
(***************************************************************************)

\* the provider objects created in one session
MaxProviders == 2

DbPaths == {"a.duckdb", "b.duckdb"}

DbTableNames == {"t", "u"}

\* what the schema query of refreshSchema() does: its rows are read, it
\* prints nothing, or it fails and the error is thrown
RefreshOutcomes == {"read", "empty", "throws"}

\* new DuckDBCliProvider(...) / new DuckDBConnectionManager(), also the state
\* of a provider after dispose(); cliAvailable is "null" until the first probe
NewProvider == [dbPath |-> "", schema |-> {}, cliAvailable |-> "null"]

isConnected(provider) == provider.dbPath # ""

getDatabasePath(provider) == provider.dbPath

\* isDuckDBCliAvailable(): the cached answer, else whether duckdb --version runs
isDuckDBCliAvailable(provider, installed) ==
    IF provider.cliAvailable # "null" THEN provider.cliAvailable = "true" ELSE installed

\* the provider after isDuckDBCliAvailable() has stored its answer
probed(provider, installed) ==
    [provider EXCEPT !.cliAvailable =
        IF isDuckDBCliAvailable(provider, installed) THEN "true" ELSE "false"]

\* refreshSchema() of a provider, a no-op without a database; the schema is
\* replaced only when the rows of the query have been read
providerRefreshSchema(provider, tables, outcome) ==
    IF provider.dbPath = "" \/ outcome # "read" THEN provider
    ELSE [provider EXCEPT !.schema = tables]

\* the provider after connect(dbPath), resolved or rejected
connect(provider, dbPath, tables, installed, outcome) ==
    IF ~isDuckDBCliAvailable(provider, installed) THEN probed(provider, installed)
    ELSE providerRefreshSchema([probed(provider, installed) EXCEPT !.dbPath = dbPath],
                               tables, outcome)

\* connect(dbPath) throws: no CLI, or the schema refresh throws
connectRejects(provider, installed, outcome) ==
    ~isDuckDBCliAvailable(provider, installed) \/ outcome = "throws"

(***************************************************************************)
(* SQLBackgroundDecorator                                                  *)
(*                                                                         *)
(* The document of an editor is a recognised or unrecognised call followed *)
(* by padding characters that are not written out; decorationType is TRUE  *)
(* while the decorator holds a decoration type, updateTimeout is the       *)
(* editor that the armed timer will decorate.                              *)
(***************************************************************************)

Editors == {"a.R", "b.R"}

NoEditor == ""

DecoratorSources ==
    {Source("", "", "dbGetQuery", 0, "", "SEL", ""),
     Source("", "", "paste", 0, "", "SEL", ""),
     Source("", "", "dbGetQuery", 1, "", MultiLine(" a", 1), "")}

EditorDocument(s, padding) == [src |-> s, padding |-> padding]

EditorDocuments == {EditorDocument(s, padding) : s \in DecoratorSources, padding \in {0, MAX_DOCUMENT_SIZE}}

FirstDocument == EditorDocument(Source("", "", "dbGetQuery", 0, "", "SEL", ""), 0)

documentLines(d) == splitLines(MakeText(d.src))

\* document.getText().length
documentLength(d) == Len(MakeText(d.src)) + d.padding

NoDecorations == [e \in Editors |-> {}]

\* lineText.search(/\S/), 0 when the line has no such character
trimmedStartOf(lineText) ==
    LET k == skipSpacesFwd(lineText, 0) IN IF k < Len(lineText) THEN k ELSE 0

\* the range of one line of a string of several lines, none for a line
\* without content
lineRange(doc, stringRange, line) ==
    LET lineText == lineAt(doc, line)
        startChar == IF line = stringRange.start.line THEN stringRange.start.character
                     ELSE trimmedStartOf(lineText)
        endChar == IF line = stringRange.start.line THEN Len(lineText)
                   ELSE IF line = stringRange.end.line THEN stringRange.end.character
                   ELSE Len(lineText)
    IN IF startChar < endChar THEN {Range(Pos(line, startChar), Pos(line, endChar))} ELSE {}

rangesOfString(doc, stringRange) ==
    IF stringRange.start.line = stringRange.end.line THEN {stringRange}
    ELSE UNION {lineRange(doc, stringRange, line) :
                    line \in stringRange.start.line..stringRange.end.line}

\* the sqlRanges of decorateEditor: the strings of the recognised calls that
\* isInsideSQLString takes as SQL, each range once
sqlRangesOf(doc) ==
    LET found == stringsOfNames(fullText(doc), SQL_FUNCTION_NAMES, 1)
        stringRanges == {Range(positionAt(doc, found[k][1]), positionAt(doc, found[k][2])) :
                            k \in 1..Len(found)}
    IN UNION {rangesOfString(doc, r) :
                  r \in {x \in stringRanges : ~isInsideSQLString(doc, x.start).isNull}}

\* the decorations of an editor after decorateEditor(editor)
decorateEditor(d, hasDecorationType, old) ==
    IF ~hasDecorationType THEN old
    ELSE IF documentLength(d) > MAX_DOCUMENT_SIZE THEN old
    ELSE sqlRangesOf(documentLines(d))

\* decorateAllVisibleEditors()
decorateAllVisibleEditors(documents, hasDecorationType, old) ==
    [e \in Editors |-> decorateEditor(documents[e], hasDecorationType, old[e])]

\* no scan has been made
notScanned == [done |-> FALSE]

Init ==
    /\ document = <<"">>
    /\ src = NoSource
    /\ position = Pos(0, 0)
    /\ pc = "idle"
    /\ result = null
    /\ parts = <<>>
    /\ sqlText = ""
    /\ cursorOffset = 0
    /\ gpc = "idle"
    /\ inside = FALSE
    /\ stripped = ""
    /\ docs = [u \in Uris |-> 1]
    /\ cache = EmptyMap
    /\ now = 0
    /\ ret = noCall
    /\ stored = EmptyMap
    /\ invalidated = [u \in Uris |-> FALSE]
    /\ cls = null
    /\ parenParts = <<>>
    /\ parenText = ""
    /\ parenPos = 0
    /\ ppc = "idle"
    /\ closeParen = -1
    /\ insideParens = FALSE
    /\ literal = NoLiteral
    /\ litPos = Pos(0, 0)
    /\ spc = "idle"
    /\ litRange = null
    /\ scanText = ""
    /\ scanOffset = 0
    /\ scanned = notScanned
    /\ activated = FALSE
    /\ isEnabled = TRUE
    /\ checkOnActivity = TRUE
    /\ pollTimer = FALSE
    /\ debounceTimer = FALSE
    /\ activityListeners = FALSE
    /\ currentSignature = null
    /\ checks = NoChecks
    /\ connectionName = ""
    /\ providerTables = EmptyMap
    /\ rTables = EmptyMap
    /\ tablesSeen = TRUE
    /\ functionsSeen = TRUE
    /\ refreshCalls = "none"
    /\ providers = <<>>
    /\ cliProvider = 0
    /\ connectionManager = 0
    /\ schemaProvider = 0
    /\ completionSchemaProvider = 0
    /\ dbTables = [p \in DbPaths |-> {}]
    /\ decoratorConstructed = FALSE
    /\ enableBackgroundColor = TRUE
    /\ decorationType = FALSE
    /\ updateTimeout = NoEditor
    /\ editorDocuments = [e \in Editors |-> FirstDocument]
    /\ decorations = NoDecorations
    /\ pendingDecoration = [e \in Editors |-> FALSE]

Next ==
    \/ \E s \in Sources : OpenDocument(s)
    \/ CloseDocument
    \/ \E p \in Positions(document) : MoveCursor(p)
    \/ Classify

Spec == Init /\ [][Next]_vars


(***************************************************************************)
(* What the open document means, from its construction                     *)
(***************************************************************************)

\* the position just after the opening quote of the string
StrStart == positionAt(document, Len(TextBefore(src)))

\* the position of the closing quote of the string
StrEnd == positionAt(document, Len(TextBefore(src)) + Len(src.body))

\* the cursor is in the content of the string: start <= position < end
InString == isAfterOrEqual(position, StrStart) /\ isBefore(position, StrEnd)

Recognised(name) == name \in SeqToSet(SQL_FUNCTION_NAMES)

\* the recognised call nearest around the string
InnermostRecognised == IF Recognised(src.call) THEN src.call ELSE src.outer

\* the string is SQL: a positional argument of a recognised call, or the
\* sql / statement argument of a direct-SQL call
IsSqlString ==
    \/ src.call \in DirectCalls /\ src.param \in {"", "sql", "statement"}
    \/ src.call \in GlueCalls /\ src.param = ""

\* the position of the "#" of the trailing comment (the trailer is " # ...")
TrailerStart == positionAt(document, Len(MakeText(src)) - Len(src.trailer) + 1)

\* the cursor is in an R comment: on the comment line before the call, or at
\* or after the "#" that follows the call
InComment ==
    \/ charAt(src.preamble, 0) = "#" /\ position.line = 0
    \/ src.trailer # "" /\ isAfterOrEqual(position, TrailerStart)

classified == opened /\ pc = "done"

embedded == ~result.isNull

(***************************************************************************)
(* Properties                                                              *)
(***************************************************************************)

\* C1: the call context of a string is the recognised call nearest around it
\* (the innermost enclosing call); a string of glue_sql(...) inside
\* dbGetQuery(...) resolves to glue_sql with isGlueString true.
C1_InnermostCall ==
    /\ (opened /\ InnermostRecognised # "")
            => findDBIFunctionContext(document, StrStart) = InnermostRecognised
    /\ (classified /\ embedded /\ result.range.start = StrStart)
            => /\ result.functionName = InnermostRecognised
               /\ result.isGlueString = (InnermostRecognised \in GlueCalls)

\* C2: a string that is a named argument of a direct-SQL call is SQL if and
\* only if the parameter name is exactly sql or statement.
C2_NamedArgument ==
    (classified /\ src.call \in DirectCalls /\ src.param # "" /\ InString)
        => (embedded <=> src.param \in {"sql", "statement"})

\* C3: in a glue-family call a named string argument is never SQL, and a
\* positional string argument is SQL at every position start <= p < end.
C3_GlueArguments ==
    (classified /\ src.call \in GlueCalls /\ InString)
        => (embedded <=> src.param = "")

\* C4: in a recognised call laid out over several lines, every position on
\* a content line of the multi-line string is SQL of that call.
C4_MultiLineCall ==
    (/\ classified /\ IsSqlString /\ src.outer = "" /\ src.argLines >= 1
     /\ StrStart.line < position.line /\ position.line < StrEnd.line)
        => (embedded /\ result.functionName = src.call)

C6_EndOfTypedText ==
    (/\ classified /\ IsSqlString /\ StrStart.line = StrEnd.line
     /\ src.body # "" /\ position = StrEnd)
        => embedded

\* C7: every position at or after a "#" that starts an R comment is not
\* embedded, whatever call names and strings the comment holds.
C7_CommentNeverEmbedded == (classified /\ InComment) => ~embedded

\* C8: every position start <= p < end of a recognised multi-line SQL string
\* is embedded, also when a "#" occurs earlier on its line in the string.
C8_HashInsideString ==
    (classified /\ IsSqlString /\ StrStart.line # StrEnd.line /\ InString) => embedded


(***************************************************************************)
(* The texts of glue strings.  A text is written from its parts: SQL text  *)
(* without braces ("sql"), one {...} interpolation block ("block"), or     *)
(* text of no known structure ("raw").                                     *)
(***************************************************************************)

MaxOverrun == 1

Part(kind, text) == [kind |-> kind, text |-> text]

RECURSIVE Concat(_, _)
Concat(ps, k) == IF k > Len(ps) THEN "" ELSE ps[k].text \o Concat(ps, k + 1)

GlueTexts ==
    {<<Part("sql", "SELECT "), Part("block", "{col}"), Part("sql", " FROM t")>>,
     <<Part("sql", "c = '"), Part("block", "{x}"), Part("sql", "'")>>,
     <<Part("sql", "a "), Part("block", "{f(\"}\")}"), Part("sql", " b")>>,
     <<Part("sql", "a "), Part("block", "{b{c}d}"), Part("sql", " e")>>,
     <<Part("sql", "x = 'it' "), Part("block", "{y}")>>,
     <<Part("block", "{a}"), Part("block", "{b}")>>,
     <<Part("sql", "n = \"q\" "), Part("block", "{z}"), Part("sql", " w")>>,
     <<Part("raw", "} {x")>>,
     <<Part("raw", "a \\' {x} '")>>,
     <<Part("raw", "'{' \"}{\" {a")>>,
     <<Part("raw", "{a")>>,
     <<Part("sql", "a\n "), Part("block", "{x}"), Part("sql", "\t"), Part("block", "{y}")>>,
     <<Part("sql", "SELECT 1")>>,
     <<Part("sql", "a "), Part("stray", "}"), Part("sql", " b")>>,
     <<Part("sql", "a "), Part("open", "{b")>>,
     <<Part("sql", "a "), Part("block", "{x}"), Part("sql", " 'c' "), Part("open", "{b{c}d")>>,
     <<Part("open", "{f(\"}\")")>>}

(***************************************************************************)
(* The completion provider asks whether an offset of a glue string is      *)
(* inside an interpolation                                                 *)
(***************************************************************************)

SetSqlText(ps) ==
    /\ ps # parts
    /\ parts' = ps
    /\ sqlText' = Concat(ps, 1)
    /\ cursorOffset' = 0
    /\ gpc' = "idle"
    /\ inside' = FALSE
    /\ stripped' = ""
    /\ UNCHANGED exceptGlue

SetCursorOffset(o) ==
    /\ parts # <<>>
    /\ o # cursorOffset
    /\ cursorOffset' = o
    /\ gpc' = "idle"
    /\ inside' = FALSE
    /\ stripped' = ""
    /\ UNCHANGED <<parts, sqlText, exceptGlue>>

CheckInterpolation ==
    /\ parts # <<>>
    /\ gpc = "idle"
    /\ inside' = isInsideInterpolation(sqlText, cursorOffset)
    /\ gpc' = "done"
    /\ UNCHANGED <<parts, sqlText, cursorOffset, stripped, exceptGlue>>

\* the diagnostics ask for the SQL text without its interpolations
StripInterpolations ==
    /\ parts # <<>>
    /\ gpc = "idle"
    /\ stripped' = stripInterpolations(sqlText)
    /\ gpc' = "stripped"
    /\ UNCHANGED <<parts, sqlText, cursorOffset, inside, exceptGlue>>

NextGlue ==
    \/ \E ps \in GlueTexts : SetSqlText(ps)
    \/ \E o \in 0..(Len(sqlText) + MaxOverrun) : SetCursorOffset(o)
    \/ CheckInterpolation
    \/ StripInterpolations

SpecGlue == Init /\ [][NextGlue]_vars

\* the offset of the first character of part k
RECURSIVE PartStart(_, _)
PartStart(ps, k) == IF k <= 1 THEN 0 ELSE PartStart(ps, k - 1) + Len(ps[k - 1].text)

\* every part is SQL text or one interpolation block
WellFormed(ps) == \A k \in 1..Len(ps) : ps[k].kind \in {"sql", "block"}

\* the offset lies between the braces of a block
InBlock(ps, o) ==
    \E k \in 1..Len(ps) :
        /\ ps[k].kind = "block"
        /\ PartStart(ps, k) < o
        /\ o < PartStart(ps, k) + Len(ps[k].text)

UnescapedQuote(s, i) == charAt(s, i) \in GlueQuotes /\ (i = 0 \/ charAt(s, i - 1) # "\\")

\* the least index >= from that satisfies the test, or Len(s)
RECURSIVE NextQuote(_, _, _)
NextQuote(s, from, c) ==
    IF from >= Len(s) THEN Len(s)
    ELSE IF UnescapedQuote(s, from) /\ (c = "" \/ charAt(s, from) = c) THEN from
    ELSE NextQuote(s, from + 1, c)

\* the indexes of the '...' and "..." sub-strings of s, quotes included
RECURSIVE QuotedIndexes(_, _)
QuotedIndexes(s, from) ==
    LET a == NextQuote(s, from, "")
        b == NextQuote(s, a + 1, charAt(s, a))
    IN IF a >= Len(s) THEN {}
       ELSE IF b >= Len(s) THEN a..(Len(s) - 1)
       ELSE (a..b) \cup QuotedIndexes(s, b + 1)

\* the brace nesting depth over s[0..o), braces in sub-strings not counted
BraceDepth(s, o) ==
    LET counted == {i \in 0..(Min(o, Len(s)) - 1) : i \notin QuotedIndexes(s, 0)}
    IN Cardinality({i \in counted : charAt(s, i) = "{"}) - Cardinality({i \in counted : charAt(s, i) = "}"})

C10_EveryBlockIsInterpolation ==
    (gpc = "done" /\ WellFormed(parts)) => (inside <=> InBlock(parts, cursorOffset))


(***************************************************************************)
(* Call names and unrecognised calls                                       *)
(***************************************************************************)

\* C11: a recognised name that is a part of a longer R identifier (letters,
\* digits, "_" and ".") never makes a string in the parentheses after that
\* identifier a SQL region.
C11_WholeIdentifier ==
    /\ (opened /\ src.call \in LongerCalls)
            => findDBIFunctionContext(document, StrStart) = ""
    /\ (classified /\ src.call \in LongerCalls /\ InString) => ~embedded

\* C12: a string that is in the parentheses of no recognised call is not
\* embedded, also when complete, closed recognised calls come before it
\* within the look-back window.
C12_UnrecognisedCall ==
    /\ (opened /\ src.call \in OtherCalls /\ src.outer = "")
            => findDBIFunctionContext(document, StrStart) = ""
    /\ (classified /\ src.call \in OtherCalls /\ src.outer = "" /\ InString) => ~embedded

\* the cursor is in the string of paste(...) that follows a closed call
C12_Witness ==
    /\ classified /\ src.call \in OtherCalls /\ src.preamble \in ClosedCalls
    /\ InString /\ position # StrStart /\ ~embedded

(***************************************************************************)
(* The region cache in use: documents are edited and closed, callers store *)
(* and look up regions, time passes.                                       *)
(*   docs         uri -> the document's version                            *)
(*   cache        the Map of the DocumentCache                             *)
(*   now          Date.now()                                               *)
(*   ret          the last call of the cache and what it returned          *)
(*   stored       uri -> what the last updateCache stored, and for which   *)
(*                version (kept apart from the cache, for the properties)  *)
(*   invalidated  uri -> invalidateDocument was called and no updateCache  *)
(*                since                                                    *)
(*   cls          the last classification of a position of a.R: its        *)
(*                result; whether the one before it was of the same        *)
(*                version and position (again) and what that one returned  *)
(*                (previous); whether a lookup purged an entry since the   *)
(*                first of them (purged)                                   *)
(***************************************************************************)

\* onDidChangeTextDocument: the document has a new version; the cache entry
\* of an R document is invalidated
ChangeTextDocument(u, languageId) ==
    /\ docs[u] < MaxVersion
    /\ docs' = [docs EXCEPT ![u] = @ + 1]
    /\ IF languageId = "r"
       THEN /\ cache' = invalidateDocument(cache, TextDocument(u, docs'[u]))
            /\ invalidated' = [invalidated EXCEPT ![u] = TRUE]
            /\ ret' = [op |-> "invalidateDocument", uri |-> u, value |-> null]
       ELSE /\ ret' = noCall
            /\ UNCHANGED <<cache, invalidated>>
    /\ UNCHANGED <<now, stored, cls, exceptCache>>

\* onDidCloseTextDocument
CloseTextDocument(u, languageId) ==
    /\ IF languageId = "r"
       THEN /\ cache' = invalidateDocument(cache, TextDocument(u, docs[u]))
            /\ invalidated' = [invalidated EXCEPT ![u] = TRUE]
            /\ ret' = [op |-> "invalidateDocument", uri |-> u, value |-> null]
       ELSE /\ ret' = noCall
            /\ UNCHANGED <<cache, invalidated>>
    /\ UNCHANGED <<docs, now, stored, cls, exceptCache>>

\* a caller stores the regions it has for the document
UpdateCache(u, regions) ==
    /\ cache' = updateCache(cache, TextDocument(u, docs[u]), regions, now)
    /\ stored' = mapSet(stored, u, [version |-> docs[u], regions |-> regions])
    /\ invalidated' = [invalidated EXCEPT ![u] = FALSE]
    /\ ret' = [op |-> "updateCache", uri |-> u, value |-> null]
    /\ UNCHANGED <<docs, now, cls, exceptCache>>

\* a caller changes the array it passed to updateCache or got from a lookup,
\* which is the array of the entry: it empties it, or pushes a region
MutateRegions(u) ==
    /\ u \in DOMAIN cache
    /\ cache' = [cache EXCEPT ![u].regions = IF @ = <<>> THEN <<Region1>> ELSE <<>>]
    /\ ret' = noCall
    /\ UNCHANGED <<docs, now, stored, invalidated, cls, exceptCache>>

\* a lookup that purges an entry is noted in the record of the classification
noted(c) == IF cls.isNull \/ c = cache THEN cls ELSE [cls EXCEPT !.purged = TRUE]

GetCachedRegions(u) ==
    LET got == getCachedRegions(cache, TextDocument(u, docs[u]), now)
    IN /\ cache' = got.cache
       /\ ret' = [op |-> "getCachedRegions", uri |-> u, value |-> got.regions]
       /\ cls' = noted(got.cache)
       /\ UNCHANGED <<docs, now, stored, invalidated, exceptCache>>

GetAllRegions(u) ==
    LET got == getAllRegions(cache, TextDocument(u, docs[u]), now)
    IN /\ cache' = got.cache
       /\ ret' = [op |-> "getAllRegions", uri |-> u, value |-> some(got.regions)]
       /\ cls' = noted(got.cache)
       /\ UNCHANGED <<docs, now, stored, invalidated, exceptCache>>

FindRegionAtPosition(u, p) ==
    LET got == findRegionAtPosition(cache, TextDocument(u, docs[u]), p, now)
    IN /\ cache' = got.cache
       /\ ret' = [op |-> "findRegionAtPosition", uri |-> u, value |-> got.region]
       /\ cls' = noted(got.cache)
       /\ UNCHANGED <<docs, now, stored, invalidated, exceptCache>>

\* time passes: a millisecond, or the expiry time
Tick(dt) ==
    /\ now + dt \in Times
    /\ now' = now + dt
    /\ ret' = noCall
    /\ UNCHANGED <<docs, cache, stored, invalidated, cls, exceptCache>>

\* what the detector answers for each version of a.R and each position
answers ==
    [v \in 1..MaxVersion |-> [p \in LookupPositions |-> isInsideSQLString(TextOf(v), p)]]

\* the completion provider asks the detector about a position of a.R
ClassifyDocument(p) ==
    LET v == docs["a.R"]
        again == ~cls.isNull /\ cls.version = v /\ cls.pos = p
        answer == answers[v][p]
    IN /\ cls' = [isNull |-> FALSE, version |-> v, pos |-> p, result |-> answer,
                  again |-> again,
                  previous |-> IF again THEN cls.result ELSE answer,
                  purged |-> again /\ cls.purged]
       /\ ret' = noCall
       /\ UNCHANGED <<docs, cache, now, stored, invalidated, exceptCache>>

NextCache ==
    \/ \E u \in Uris, l \in LanguageIds : ChangeTextDocument(u, l)
    \/ \E u \in Uris, l \in LanguageIds : CloseTextDocument(u, l)
    \/ \E u \in Uris, r \in RegionSeqs : UpdateCache(u, r)
    \/ \E u \in Uris : MutateRegions(u)
    \/ \E u \in Uris : GetCachedRegions(u)
    \/ \E u \in Uris : GetAllRegions(u)
    \/ \E u \in Uris, p \in LookupPositions : FindRegionAtPosition(u, p)
    \/ \E dt \in {1, CACHE_EXPIRY_MS} : Tick(dt)

SpecCache == Init /\ [][NextCache]_vars

\* completions are asked for a.R while its regions are stored and looked up
NextClassify ==
    \/ \E p \in LookupPositions : ClassifyDocument(p)
    \/ \E l \in LanguageIds : ChangeTextDocument("a.R", l)
    \/ \E r \in RegionSeqs : UpdateCache("a.R", r)
    \/ GetCachedRegions("a.R")
    \/ GetAllRegions("a.R")
    \/ \E p \in LookupPositions : FindRegionAtPosition("a.R", p)
    \/ \E dt \in {1, CACHE_EXPIRY_MS} : Tick(dt)

SpecClassify == Init /\ [][NextClassify]_vars

LookupOps == {"getCachedRegions", "getAllRegions", "findRegionAtPosition"}

\* the last call was a lookup
lookedUp == ret.op \in LookupOps

\* the last lookup handed regions to its caller
Returned ==
    /\ lookedUp
    /\ IF ret.op = "getAllRegions" THEN ret.value.value # <<>> ELSE ~ret.value.isNull

\* the last lookup handed nothing to its caller
Missed ==
    /\ lookedUp
    /\ IF ret.op = "getAllRegions" THEN ret.value.value = <<>> ELSE ret.value.isNull

\* C13: whatever the edits, updates, invalidations and lookups, a lookup
\* never returns regions that were stored for another version of the
\* document than its current one.
C13_NoStaleRegions ==
    Returned => (ret.uri \in DOMAIN stored /\ stored[ret.uri].version = docs[ret.uri])

\* regions were stored for an earlier version, no invalidation since, and
\* the lookup hands nothing out
C13_Witness ==
    /\ Missed /\ ret.uri \in DOMAIN stored
    /\ stored[ret.uri].version # docs[ret.uri] /\ ~invalidated[ret.uri]

\* the entry of u is of the document's version and younger than `age`
fresh(u, age) ==
    /\ u \in DOMAIN cache
    /\ cache[u].version = docs[u]
    /\ now - cache[u].parseTimestamp < age

\* C14 as stated: getCachedRegions returns the stored sequence iff an entry
\* of the document's version exists whose age is under CACHE_EXPIRY_MS; an
\* entry whose age is not under the expiry is a miss and is purged.
C14_HitIffAgeUnderExpiry ==
    [][ret'.op = "getCachedRegions"
        => LET u == ret'.uri
           IN /\ ~ret'.value.isNull <=> fresh(u, CACHE_EXPIRY_MS)
              /\ fresh(u, CACHE_EXPIRY_MS) => ret'.value.value = cache[u].regions
              /\ (u \in DOMAIN cache /\ ~fresh(u, CACHE_EXPIRY_MS))
                    => (ret'.value.isNull /\ u \notin DOMAIN cache')]_vars

\* C14 amended: getCachedRegions returns the stored sequence iff an entry of
\* the document's version exists whose age is at most CACHE_EXPIRY_MS; an
\* entry of another version or of a greater age is a miss and is purged.
C14_HitIffAgeWithinExpiry ==
    [][ret'.op = "getCachedRegions"
        => LET u == ret'.uri
           IN /\ ~ret'.value.isNull <=> fresh(u, CACHE_EXPIRY_MS + 1)
              /\ fresh(u, CACHE_EXPIRY_MS + 1) => ret'.value.value = cache[u].regions
              /\ (u \in DOMAIN cache /\ ~fresh(u, CACHE_EXPIRY_MS + 1))
                    => (ret'.value.isNull /\ u \notin DOMAIN cache')]_vars

\* a hit on an entry whose age is exactly the expiry
C14_Witness ==
    /\ ret.op = "getCachedRegions" /\ ~ret.value.isNull
    /\ now - cache[ret.uri].parseTimestamp = CACHE_EXPIRY_MS

\* C15: after invalidateDocument(d) every lookup for d misses until the next
\* updateCache(d), whatever the version of d, and the invalidation leaves
\* the entries of all other documents as they are.
C15_InvalidateDocument ==
    /\ []((lookedUp /\ invalidated[ret.uri]) => Missed)
    /\ [][ret'.op = "invalidateDocument"
            => \A e \in Uris \ {ret'.uri} :
                  /\ e \in DOMAIN cache' <=> e \in DOMAIN cache
                  /\ e \in DOMAIN cache => cache'[e] = cache[e]]_vars

\* a lookup misses for an invalidated document that had regions stored and
\* was edited since, while the other document keeps its entry
C15_Witness ==
    /\ Missed /\ invalidated[ret.uri]
    /\ ret.uri \in DOMAIN stored /\ stored[ret.uri].version # docs[ret.uri]
    /\ \E e \in Uris \ {ret.uri} : e \in DOMAIN cache

\* C16: for a document of more than MAX_DOCUMENT_SIZE characters every
\* lookup yields nothing (an empty sequence, never stored regions), after
\* any updateCache and lookup calls.
C16_OversizedDocument ==
    (lookedUp /\ textLength(ret.uri, docs[ret.uri]) > MAX_DOCUMENT_SIZE) => Missed

\* C17: what a lookup returns for a document version is the sequence as
\* updateCache stored it, also after a caller changed the array it passed
\* to updateCache or got from a lookup.
C17_NotSharedMutably ==
    /\ (ret.op = "getCachedRegions" /\ ~ret.value.isNull)
            => ret.value.value = stored[ret.uri].regions
    /\ (ret.op = "getAllRegions" /\ ret.value.value # <<>>)
            => ret.value.value = stored[ret.uri].regions

MaxParts == 3

CodeParts == {Part("code", "("), Part("code", ")"), Part("code", "a(b)")}

\* strings with parentheses: "(" and ')' and ~)(~, and "\")" with an escaped quote
StringParts ==
    {Part("string", "\"(\""), Part("string", "')'"),
     Part("string", backquote \o ")(" \o backquote), Part("string", "\"\\\")\"")}

RECURSIVE SeqsUpTo(_, _)
SeqsUpTo(S, n) ==
    IF n = 0 THEN {<<>>}
    ELSE LET shorter == SeqsUpTo(S, n - 1)
         IN shorter \cup {Append(q, x) : q \in shorter, x \in S}

ParenTexts == SeqsUpTo(CodeParts \cup StringParts, MaxParts) \ {<<>>}

SetParenText(ps) ==
    /\ parenParts = <<>>
    /\ parenParts' = ps
    /\ parenText' = Concat(ps, 1)
    /\ parenPos' = 0
    /\ ppc' = "idle"
    /\ closeParen' = -1
    /\ insideParens' = FALSE
    /\ UNCHANGED exceptParen

SetParenPos(i) ==
    /\ parenParts # <<>>
    /\ i # parenPos
    /\ parenPos' = i
    /\ ppc' = "idle"
    /\ closeParen' = -1
    /\ insideParens' = FALSE
    /\ UNCHANGED <<parenParts, parenText, exceptParen>>

ClearParenText ==
    /\ parenParts # <<>>
    /\ parenParts' = <<>>
    /\ parenText' = ""
    /\ parenPos' = 0
    /\ ppc' = "idle"
    /\ closeParen' = -1
    /\ insideParens' = FALSE
    /\ UNCHANGED exceptParen

\* a caller asks for the parenthesis that closes the one at parenPos
FindMatchingCloseParen ==
    /\ parenParts # <<>>
    /\ ppc = "idle"
    /\ charAt(parenText, parenPos) = "("
    /\ closeParen' = findMatchingCloseParen(parenText, parenPos)
    /\ ppc' = "matched"
    /\ UNCHANGED <<parenParts, parenText, parenPos, insideParens, exceptParen>>

\* a caller asks whether parenPos is inside parentheses
IsInsideParens ==
    /\ parenParts # <<>>
    /\ ppc = "idle"
    /\ insideParens' = isInsideParens(parenText, parenPos)
    /\ ppc' = "inside"
    /\ UNCHANGED <<parenParts, parenText, parenPos, closeParen, exceptParen>>

NextParen ==
    \/ \E ps \in ParenTexts : SetParenText(ps)
    \/ \E i \in 0..Len(parenText) : SetParenPos(i)
    \/ ClearParenText
    \/ FindMatchingCloseParen
    \/ IsInsideParens

SpecParen == Init /\ [][NextParen]_vars

\* the text has no quoted string
QuoteFree(ps) == \A k \in 1..Len(ps) : ps[k].kind = "code"

\* the indexes of the text that lie in a quoted string, the quotes included
Quoted(ps) ==
    UNION {PartStart(ps, k)..(PartStart(ps, k) + Len(ps[k].text) - 1) :
              k \in {j \in 1..Len(ps) : ps[j].kind = "string"}}

\* how many of the indexes from..to hold the character c outside the strings
CountOutside(ps, c, from, to) ==
    Cardinality({i \in from..to : i \notin Quoted(ps) /\ charAt(Concat(ps, 1), i) = c})

\* the parenthesis that closes the one at open: the first index after it up
\* to which one more ")" than "(" stands outside the strings; -1 if none
MatchingClose(ps, open) ==
    LET closing == {j \in (open + 1)..(Len(Concat(ps, 1)) - 1) :
                       CountOutside(ps, ")", open + 1, j) = CountOutside(ps, "(", open + 1, j) + 1}
    IN IF closing = {} THEN -1 ELSE CHOOSE j \in closing : \A k \in closing : j <= k

\* the nesting depth before pos, of the parentheses outside the strings
DepthOutside(ps, pos) == CountOutside(ps, "(", 0, pos - 1) - CountOutside(ps, ")", 0, pos - 1)

\* C19: in a text without quotes, findMatchingCloseParen(text, openPos)
\* returns the index of the ")" that matches the "(" at openPos when there
\* is one, and -1 when the text ends before the depth is back at zero.
C19_MatchingCloseParen ==
    (ppc = "matched" /\ QuoteFree(parenParts))
        => closeParen = MatchingClose(parenParts, parenPos)

\* the outer parenthesis of a nested, balanced text is matched
C19_Witness ==
    /\ ppc = "matched" /\ QuoteFree(parenParts)
    /\ closeParen > parenPos + 1
    /\ \E i \in (parenPos + 1)..(closeParen - 1) : charAt(parenText, i) = ")"

\* C20: a "(" or ")" inside a quoted string never changes the depth that
\* findMatchingCloseParen and isInsideParens compute for the text outside
\* the string.
C20_ParensInStrings ==
    /\ (ppc = "matched" /\ parenPos \notin Quoted(parenParts))
            => closeParen = MatchingClose(parenParts, parenPos)
    /\ ppc = "inside" => (insideParens <=> DepthOutside(parenParts, parenPos) > 0)

\* a ")" in a string lies between a parenthesis and the one that closes it
C20_Witness ==
    /\ ppc = "matched" /\ closeParen > parenPos
    /\ \E i \in (parenPos + 1)..(closeParen - 1) :
            i \in Quoted(parenParts) /\ charAt(parenText, i) = ")"

(***************************************************************************)
(* The range of the string literal at a position                           *)
(***************************************************************************)

litDocument == splitLines(LiteralText(literal))

OpenLiteral(l) ==
    /\ literal = NoLiteral
    /\ literal' = l
    /\ litPos' = Pos(0, 0)
    /\ spc' = "idle"
    /\ litRange' = null
    /\ UNCHANGED exceptString

CloseLiteral ==
    /\ literal # NoLiteral
    /\ literal' = NoLiteral
    /\ litPos' = Pos(0, 0)
    /\ spc' = "idle"
    /\ litRange' = null
    /\ UNCHANGED exceptString

MoveInLiteral(p) ==
    /\ literal # NoLiteral
    /\ p # litPos
    /\ litPos' = p
    /\ spc' = "idle"
    /\ litRange' = null
    /\ UNCHANGED <<literal, exceptString>>

GetStringRangeAtPosition ==
    /\ literal # NoLiteral
    /\ spc = "idle"
    /\ litRange' = getStringRangeAtPosition(litDocument, litPos)
    /\ spc' = "done"
    /\ UNCHANGED <<literal, litPos, exceptString>>

NextString ==
    \/ \E l \in Literals : OpenLiteral(l)
    \/ CloseLiteral
    \/ \E p \in Positions(litDocument) : MoveInLiteral(p)
    \/ GetStringRangeAtPosition

SpecString == Init /\ [][NextString]_vars

\* the position just after the opening quote, and that of the closing quote
LitStart == positionAt(litDocument, Len(literal.before) + 1)

LitEnd == positionAt(litDocument, Len(literal.before) + 1 + Len(literal.content))

\* the position is in the content, on the line of the opening quote
InContentOnOpeningLine ==
    /\ litPos.line = LitStart.line
    /\ isAfterOrEqual(litPos, LitStart) /\ isBefore(litPos, LitEnd)

RECURSIVE IsSubsequence(_, _, _, _)
IsSubsequence(a, i, b, j) ==
    IF i > Len(a) THEN TRUE
    ELSE IF j > Len(b) THEN FALSE
    ELSE IF SubSeq(a, i, i) = SubSeq(b, j, j) THEN IsSubsequence(a, i + 1, b, j + 1)
    ELSE IsSubsequence(a, i, b, j + 1)

\* the text of the parts that are no block: the characters outside all blocks
RECURSIVE OutsideText(_, _)
OutsideText(ps, k) ==
    IF k > Len(ps) THEN ""
    ELSE (IF ps[k].kind = "block" THEN "" ELSE ps[k].text) \o OutsideText(ps, k + 1)

\* how often the needle occurs in s
Occurrences(needle, s) ==
    Cardinality({k \in 1..(Len(s) - Len(needle) + 1) : SubSeq(s, k, k + Len(needle) - 1) = needle})

Blocks(ps) == {k \in 1..Len(ps) : ps[k].kind = "block"}

HasBrace(s) == \E i \in 0..(Len(s) - 1) : charAt(s, i) \in {"{", "}"}

\* the parts are SQL text, blocks and braces that close nothing
BlocksAndStrays(ps) == \A k \in 1..Len(ps) : ps[k].kind \in {"sql", "block", "stray"}

\* C22: every character of the input outside all {...} blocks appears in the
\* output of stripInterpolations, unchanged and in order.
C22_OutsidePreserved ==
    (gpc = "stripped" /\ BlocksAndStrays(parts))
        => IsSubsequence(OutsideText(parts, 1), 1, stripped, 1)

\* C23: for a text of zero or more well-formed {...} blocks the output holds
\* one placeholder for each top-level block and no brace, and stripping the
\* output again gives the output.
C23_PlaceholderPerBlock ==
    (gpc = "stripped" /\ WellFormed(parts))
        => /\ Occurrences(PLACEHOLDER, stripped) = Cardinality(Blocks(parts))
           /\ ~HasBrace(stripped)
           /\ stripInterpolations(stripped) = stripped

\* C24: the output of stripInterpolations is never longer than its input.
C24_NeverLonger ==
    gpc = "stripped" => Len(stripped) <= Len(sqlText)

\* C24 amended: each placeholder stands for a block of two characters or
\* more, so the output is never longer than the input by more than the
\* length of a placeholder less two, for each placeholder it holds.
C24_LongerByPlaceholders ==
    gpc = "stripped"
        => Len(stripped) <= Len(sqlText) + 15 * Occurrences(PLACEHOLDER, stripped)

\* a block of three characters became a placeholder, the output is longer
C24_Witness ==
    /\ gpc = "stripped"
    /\ \E k \in Blocks(parts) : Len(parts[k].text) = 3
    /\ Occurrences(PLACEHOLDER, stripped) > 0
    /\ Len(stripped) > Len(sqlText)

\* the last part opens a brace that nothing closes; the blocks before it are
\* outside the quoted sub-strings
EndsOpen(ps) ==
    /\ ps # <<>>
    /\ ps[Len(ps)].kind = "open"
    /\ \A k \in 1..(Len(ps) - 1) : ps[k].kind \in {"sql", "block"}
    /\ \A k \in Blocks(ps) : PartStart(ps, k) \notin QuotedIndexes(Concat(ps, 1), 0)

\* the text before part k, a placeholder in the place of each block
RECURSIVE StrippedBefore(_, _)
StrippedBefore(ps, k) ==
    IF k <= 1 THEN ""
    ELSE StrippedBefore(ps, k - 1)
             \o (IF ps[k - 1].kind = "block" THEN PLACEHOLDER ELSE ps[k - 1].text)

ScanTexts ==
    {"", "(", ")((", "f(\"a)\", b)", "sql('x') # y", "{a", "a } b", "it's (",
     "\\\"", "sql(sql(", "x = '{y}' (z)", "# sql(~", "sql(a) + sql (b"}

\* the offsets of a text, and those below 0 and beyond its end
ScanOffsets(text) == (0 - MaxOverrun - 1)..(Len(text) + MaxOverrun)

SetScanText(t) ==
    /\ t # scanText
    /\ scanText' = t
    /\ scanOffset' = 0
    /\ scanned' = notScanned
    /\ UNCHANGED exceptScan

SetScanOffset(o) ==
    /\ o # scanOffset
    /\ scanOffset' = o
    /\ scanned' = notScanned
    /\ UNCHANGED <<scanText, exceptScan>>

\* the value of each scanning function at the text and the offset
scanAll(text, offset) ==
    [done |-> TRUE,
     closeParen |-> findMatchingCloseParen(text, offset),
     insideParens |-> isInsideParens(text, offset),
     insideInterpolation |-> isInsideInterpolation(text, offset),
     stripped |-> stripInterpolations(text),
     insideComment |-> isInsideComment(text, offset),
     validated |-> findFunctionAndValidatePosition(text, "sql", offset),
     stringsFrom |-> findStringsInRange(text, <<offset, Len(text) + MaxOverrun>>),
     stringsUpTo |-> findStringsInRange(text, <<0 - MaxOverrun, offset>>)]

Scan ==
    /\ ~scanned.done
    /\ scanned' = scanAll(scanText, scanOffset)
    /\ UNCHANGED <<scanText, scanOffset, exceptScan>>

NextScan ==
    \/ \E t \in ScanTexts : SetScanText(t)
    \/ \E o \in ScanOffsets(scanText) : SetScanOffset(o)
    \/ Scan

SpecScan == Init /\ [][NextScan]_vars

\* the offset, brought to the nearest offset of the text
Clamped(text, o) == Max(0, Min(o, Len(text)))

\* a sequence of content ranges <<start, end>> within the text, in order
StringRanges(rs, text) ==
    /\ \A k \in 1..Len(rs) : 1 <= rs[k][1] /\ rs[k][1] <= rs[k][2] /\ rs[k][2] < Len(text)
    /\ \A k \in 1..(Len(rs) - 1) : rs[k][2] < rs[k + 1][1]

\* C26: each scanning function returns a value of its kind for any text and
\* any offset, those below 0 and beyond the end of the text included: an
\* index of a closing parenthesis after the offset or -1, a truth value, a
\* text, ranges within the text; an offset outside the text is answered as
\* the nearest offset of the text is (before the start: as an empty prefix).
C26_ScanningFunctionsTotal ==
    scanned.done
        => /\ scanned.closeParen \in
                  {-1} \cup {i \in Max(0, scanOffset + 1)..(Len(scanText) - 1) : charAt(scanText, i) = ")"}
           /\ scanOffset < 0
                  => scanned.closeParen = findMatchingCloseParen(scanText, -1)
           /\ scanOffset >= Len(scanText) => scanned.closeParen = -1
           /\ scanned.insideParens \in BOOLEAN
           /\ scanned.insideParens = isInsideParens(scanText, Clamped(scanText, scanOffset))
           /\ scanned.insideInterpolation \in BOOLEAN
           /\ scanned.insideInterpolation
                  = isInsideInterpolation(scanText, Clamped(scanText, scanOffset))
           /\ scanOffset <= 0 => ~scanned.insideParens /\ ~scanned.insideInterpolation
           /\ Len(scanned.stripped) \in Nat
           /\ scanned.insideComment \in BOOLEAN
           /\ scanOffset < 0 => ~scanned.insideComment
           /\ scanned.validated \in BOOLEAN
           /\ scanOffset < 0 => ~scanned.validated
           /\ scanOffset > Len(scanText)
                  => scanned.validated = findFunctionAndValidatePosition(scanText, "sql", Len(scanText))
           /\ StringRanges(scanned.stringsFrom, scanText)
           /\ StringRanges(scanned.stringsUpTo, scanText)
           /\ scanOffset <= 0
                  => /\ scanned.stringsUpTo = <<>>
                     /\ scanned.stringsFrom = findStringsInRange(scanText, <<0, Len(scanText)>>)
           /\ scanOffset >= Len(scanText)
                  => /\ scanned.stringsFrom = <<>>
                     /\ scanned.stringsUpTo = findStringsInRange(scanText, <<0, Len(scanText)>>)

\* a scan at an offset beyond the end of a text with two open calls
C26_Witness ==
    /\ scanned.done
    /\ scanText = "sql(sql("
    /\ scanOffset = Len(scanText) + MaxOverrun
    /\ scanned.insideParens /\ scanned.validated

(***************************************************************************)
(* The schema watcher, the settings, the R session and the timers          *)
(***************************************************************************)

\* new SchemaWatcher(...) reads the settings, start() follows
ConstructAndStart(autoRefreshSchema, autoRefreshOnActivity) ==
    /\ ~activated
    /\ activated' = TRUE
    /\ isEnabled' = autoRefreshSchema
    /\ checkOnActivity' = autoRefreshOnActivity
    /\ IF autoRefreshSchema
       THEN /\ currentSignature' = some(SchemaSignature(providerTables))
            /\ pollTimer' = TRUE
            /\ activityListeners' = autoRefreshOnActivity
       ELSE UNCHANGED <<currentSignature, pollTimer, activityListeners>>
    /\ UNCHANGED <<debounceTimer, checks, connectionName, providerTables, rTables,
                   tablesSeen, functionsSeen, refreshCalls, exceptWatcher>>

\* onDidChangeConfiguration: start() or stop() if autoRefreshSchema changed
\* (start() still sees the former checkOnActivity); a changed interval sets
\* the poll timer anew, which leaves it set
HandleConfigurationChange(newEnabled, newCheckOnActivity) ==
    /\ activated
    /\ isEnabled' = newEnabled
    /\ checkOnActivity' = newCheckOnActivity
    /\ IF newEnabled = isEnabled
       THEN UNCHANGED <<currentSignature, pollTimer, debounceTimer, activityListeners>>
       ELSE IF newEnabled
       THEN /\ currentSignature' = some(SchemaSignature(providerTables))
            /\ pollTimer' = TRUE
            /\ activityListeners' = (activityListeners \/ checkOnActivity)
            /\ UNCHANGED debounceTimer
       ELSE /\ pollTimer' = FALSE
            /\ debounceTimer' = FALSE
            /\ UNCHANGED <<currentSignature, activityListeners>>
    /\ UNCHANGED <<activated, checks, connectionName, providerTables, rTables,
                   tablesSeen, functionsSeen, refreshCalls, exceptWatcher>>

\* checkForChanges is called: without a connection name the fetch gives null
\* and the check ends, otherwise it waits for R
checksAfterCall ==
    IF connectionName = "" THEN checks ELSE checks \cup {Fetching}

\* the callback of setInterval
PollTimerFires ==
    /\ pollTimer
    /\ checks' = checksAfterCall
    /\ UNCHANGED <<activated, isEnabled, checkOnActivity, pollTimer, debounceTimer,
                   activityListeners, currentSignature, connectionName, providerTables,
                   rTables, tablesSeen, functionsSeen, refreshCalls, exceptWatcher>>

\* onDidSaveTextDocument, for each listener that start() has registered
SaveTextDocument(languageId) ==
    /\ activityListeners
    /\ debounceTimer' = IF languageId = "r" THEN TRUE ELSE debounceTimer
    /\ UNCHANGED <<activated, isEnabled, checkOnActivity, pollTimer, activityListeners,
                   currentSignature, checks, connectionName, providerTables, rTables,
                   tablesSeen, functionsSeen, refreshCalls, exceptWatcher>>

\* the callback of setTimeout in checkForChangesDebounced
DebounceTimerFires ==
    /\ debounceTimer
    /\ debounceTimer' = FALSE
    /\ checks' = checksAfterCall
    /\ UNCHANGED <<activated, isEnabled, checkOnActivity, pollTimer, activityListeners,
                   currentSignature, connectionName, providerTables, rTables,
                   tablesSeen, functionsSeen, refreshCalls, exceptWatcher>>

\* checkForChanges goes on with the signature that R has sent
FetchReturns ==
    /\ Fetching \in checks
    /\ LET newSignature == SchemaSignature(rTables)
       IN IF currentSignature.isNull
          THEN /\ currentSignature' = some(newSignature)
               /\ checks' = checks \ {Fetching}
               /\ UNCHANGED refreshCalls
          ELSE IF signaturesMatch(currentSignature.value, newSignature)
          THEN /\ checks' = checks \ {Fetching}
               /\ UNCHANGED currentSignature
               /\ UNCHANGED refreshCalls
          ELSE /\ checks' = (checks \ {Fetching}) \cup {Refreshing(newSignature)}
               /\ refreshCalls' = IF refreshCalls = "none" THEN "one" ELSE "many"
               /\ UNCHANGED currentSignature
    /\ UNCHANGED <<activated, isEnabled, checkOnActivity, pollTimer, debounceTimer,
                   activityListeners, connectionName, providerTables, rTables,
                   tablesSeen, functionsSeen, exceptWatcher>>

\* performFullRefresh is over: the provider has read the schema of R, and
\* checkForChanges stores the signature it had fetched
RefreshReturns(stage) ==
    /\ stage # Fetching
    /\ stage \in checks
    /\ providerTables' = rTables
    /\ tablesSeen' = TRUE
    /\ functionsSeen' = TRUE
    /\ currentSignature' = some(stage.newSignature)
    /\ checks' = checks \ {stage}
    /\ UNCHANGED <<activated, isEnabled, checkOnActivity, pollTimer, debounceTimer,
                   activityListeners, connectionName, rTables, refreshCalls, exceptWatcher>>

\* performFullRefresh is over, refreshSchema has thrown: the error is caught
\* and logged there, and checkForChanges goes on as after a refresh
RefreshFails(stage) ==
    /\ stage # Fetching
    /\ stage \in checks
    /\ currentSignature' = some(stage.newSignature)
    /\ checks' = checks \ {stage}
    /\ UNCHANGED <<activated, isEnabled, checkOnActivity, pollTimer, debounceTimer,
                   activityListeners, connectionName, providerTables, rTables,
                   tablesSeen, functionsSeen, refreshCalls, exceptWatcher>>

\* a connection is selected in the schema provider, or given up
SelectConnection ==
    /\ connectionName = ""
    /\ connectionName' = "con"
    /\ UNCHANGED <<activated, isEnabled, checkOnActivity, pollTimer, debounceTimer,
                   activityListeners, currentSignature, checks, providerTables, rTables,
                   tablesSeen, functionsSeen, refreshCalls, exceptWatcher>>

ClearConnection ==
    /\ connectionName # ""
    /\ connectionName' = ""
    /\ UNCHANGED <<activated, isEnabled, checkOnActivity, pollTimer, debounceTimer,
                   activityListeners, currentSignature, checks, providerTables, rTables,
                   tablesSeen, functionsSeen, refreshCalls, exceptWatcher>>

\* the R session: CREATE TABLE, DROP TABLE, ALTER TABLE, INSTALL / LOAD
ChangeTables(tables) ==
    /\ rTables' = tables
    /\ tablesSeen' = FALSE
    /\ refreshCalls' = "none"
    /\ UNCHANGED <<activated, isEnabled, checkOnActivity, pollTimer, debounceTimer,
                   activityListeners, currentSignature, checks, connectionName,
                   providerTables, functionsSeen, exceptWatcher>>

CreateTable(name, columns) ==
    /\ name \notin DOMAIN rTables
    /\ ChangeTables(mapSet(rTables, name, columns))

DropTable(name) ==
    /\ name \in DOMAIN rTables
    /\ ChangeTables(mapDelete(rTables, name))

AlterTable(name, columns) ==
    /\ name \in DOMAIN rTables
    /\ rTables[name] # columns
    /\ ChangeTables(mapSet(rTables, name, columns))

LoadExtension ==
    /\ functionsSeen' = FALSE
    /\ UNCHANGED <<activated, isEnabled, checkOnActivity, pollTimer, debounceTimer,
                   activityListeners, currentSignature, checks, connectionName,
                   providerTables, rTables, tablesSeen, refreshCalls, exceptWatcher>>

NextWatcher ==
    \/ \E e \in BOOLEAN, a \in BOOLEAN : ConstructAndStart(e, a)
    \/ \E e \in BOOLEAN, a \in BOOLEAN : HandleConfigurationChange(e, a)
    \/ PollTimerFires
    \/ \E l \in LanguageIds : SaveTextDocument(l)
    \/ DebounceTimerFires
    \/ FetchReturns
    \/ \E stage \in CheckStages : RefreshReturns(stage)
    \/ SelectConnection
    \/ ClearConnection
    \/ \E k \in 1..Len(TableNames), n \in ColumnCounts : CreateTable(TableNames[k], n)
    \/ \E k \in 1..Len(TableNames) : DropTable(TableNames[k])
    \/ \E k \in 1..Len(TableNames), n \in ColumnCounts : AlterTable(TableNames[k], n)
    \/ LoadExtension

SpecWatcher == Init /\ [][NextWatcher]_vars

\* the poll timer keeps firing, and the calls of R and of the provider return
SpecWatcherFair ==
    /\ SpecWatcher
    /\ WF_vars(PollTimerFires)
    /\ WF_vars(FetchReturns)
    /\ WF_vars(\E stage \in CheckStages : RefreshReturns(stage))

\* the watcher with a provider whose refreshSchema can throw
NextWatcherFailing ==
    \/ NextWatcher
    \/ \E stage \in CheckStages : RefreshFails(stage)

SpecWatcherFailing == Init /\ [][NextWatcherFailing]_vars

isWatcherEnabled == isEnabled /\ pollTimer

\* C27: while autoRefreshSchema is false, at start-up or after it was
\* switched off, no call of checkForChanges begins and no refresh: neither
\* the poll timer nor the saving of an R file starts one.
C27_NoCheckWhileDisabled ==
    [][(activated /\ ~isEnabled /\ ~isEnabled') => inFlight(checks') <= inFlight(checks)]_vars

\* the watcher runs with a connection, and an extension was loaded since the
\* last refresh
ExtensionUnseen == isWatcherEnabled /\ connectionName # "" /\ ~functionsSeen

\* C28: after an extension is loaded in the R session, with auto-refresh
\* enabled and a connection selected, a later check triggers a refresh.
C28_ExtensionLeadsToRefresh ==
    ExtensionUnseen ~> (functionsSeen \/ ~isWatcherEnabled \/ connectionName = "")

\* the watcher runs with a connection, and the tables of R were changed
\* since the last refresh
TablesUnseen == isWatcherEnabled /\ connectionName # "" /\ ~tablesSeen

TablesAsStored == ~currentSignature.isNull /\ currentSignature.value.tables = rTables

commandTarget == IF cliProvider # 0 THEN cliProvider ELSE connectionManager

\* activate(): a DuckDBCliProvider is created and probed; without the CLI a
\* DuckDBConnectionManager is created as well. The one chosen becomes
\* schemaProvider and is
\* handed to the new SQLCompletionProvider
Activate(cliAvailable) ==
    /\ schemaProvider = 0
    /\ providers' = IF cliAvailable THEN <<probed(NewProvider, TRUE)>>
                     ELSE <<probed(NewProvider, FALSE), NewProvider>>
    /\ cliProvider' = 1
    /\ connectionManager' = IF cliAvailable THEN 0 ELSE 2
    /\ schemaProvider' = IF cliAvailable THEN 1 ELSE 2
    /\ completionSchemaProvider' = IF cliAvailable THEN 1 ELSE 2
    /\ UNCHANGED <<dbTables, exceptExtension>>

ConnectToDatabase(dbPath, installed, outcome) ==
    /\ schemaProvider # 0
    /\ providers' = [providers EXCEPT
                         ![commandTarget] = connect(@, dbPath, dbTables[dbPath], installed, outcome)]
    /\ UNCHANGED <<cliProvider, connectionManager, schemaProvider,
                   completionSchemaProvider, dbTables, exceptExtension>>

\* disconnectCommand: the provider is disposed and a new one takes its place
DisconnectCommand ==
    /\ schemaProvider # 0
    /\ isConnected(providers[schemaProvider])
    /\ Len(providers) < MaxProviders
    /\ providers' = Append([providers EXCEPT ![commandTarget] = NewProvider], NewProvider)
    /\ cliProvider' = IF cliProvider # 0 THEN Len(providers) + 1 ELSE cliProvider
    /\ connectionManager' = IF cliProvider # 0 THEN connectionManager ELSE Len(providers) + 1
    /\ schemaProvider' = Len(providers) + 1
    /\ UNCHANGED <<completionSchemaProvider, dbTables, exceptExtension>>

RefreshSchema(outcome) ==
    /\ schemaProvider # 0
    /\ providers' = [providers EXCEPT
                         ![commandTarget] = providerRefreshSchema(@, dbTables[@.dbPath], outcome)]
    /\ UNCHANGED <<cliProvider, connectionManager, schemaProvider,
                   completionSchemaProvider, dbTables, exceptExtension>>

\* a table is created or dropped in a database file
WriteDatabase(dbPath, tables) ==
    /\ tables # dbTables[dbPath]
    /\ dbTables' = [dbTables EXCEPT ![dbPath] = tables]
    /\ UNCHANGED <<providers, cliProvider, connectionManager, schemaProvider,
                   completionSchemaProvider, exceptExtension>>

NextExtension ==
    \/ \E cliAvailable \in BOOLEAN : Activate(cliAvailable)
    \/ \E dbPath \in DbPaths, installed \in BOOLEAN, outcome \in RefreshOutcomes :
            ConnectToDatabase(dbPath, installed, outcome)
    \/ DisconnectCommand
    \/ \E outcome \in RefreshOutcomes : RefreshSchema(outcome)
    \/ \E dbPath \in DbPaths, tables \in SUBSET DbTableNames : WriteDatabase(dbPath, tables)

SpecExtension == Init /\ [][NextExtension]_vars

\* C30: after any sequence of connect, disconnect and refresh commands the
\* schema provider held by the registered completion provider is the
\* current schemaProvider, the object that connect and refresh are sent to.
C30_CompletionHoldsCurrentProvider ==
    schemaProvider # 0
        => /\ completionSchemaProvider = schemaProvider
           /\ completionSchemaProvider = commandTarget

\* C31: when a check has seen the signature differ and the full refresh
\* fails, currentSignature keeps its value, so that the next check sees the
\* same change and tries the refresh again.
C31_FailedRefreshKeepsSignature ==
    [][(\E stage \in CheckStages : RefreshFails(stage))
           => currentSignature' = currentSignature]_vars

\* C34: one change of the tables makes performFullRefresh be called once at
\* most, whatever the order of poll ticks, debounced checks and returns.
C34_OneRefreshPerChange == refreshCalls # "many"

(***************************************************************************)
(* The cursor's offset in the query of a context                           *)
(***************************************************************************)

RECURSIVE cursorLoop(_, _, _, _)
cursorLoop(doc, stringStart, positionLine, line) ==
    IF line < positionLine
    THEN Len(lineAt(doc, line))
            - (IF line = stringStart.line THEN stringStart.character ELSE 0) + 1
            + cursorLoop(doc, stringStart, positionLine, line + 1)
    ELSE 0

getSQLCursorPosition(doc, pos, context) ==
    LET stringStart == context.range.start
    IN IF pos.line = stringStart.line
       THEN pos.character - stringStart.character
       ELSE cursorLoop(doc, stringStart, pos.line, stringStart.line) + pos.character

\* the character of the document at the cursor
CharAtCursor == charAt(fullText(document), offsetAt(document, position))

\* the character of the query that the cursor's offset addresses
CharAtQueryOffset == charAt(result.query, getSQLCursorPosition(document, position, result))

\* C32: for a context returned by isInsideSQLString and a position of its
\* range, the offset of getSQLCursorPosition addresses in the query the
\* character that the position addresses in the document, in strings of one
\* line and of several lines.
C32_OffsetAddressesSameCharacter ==
    (classified /\ embedded /\ InString /\ result.range = Range(StrStart, StrEnd))
        => CharAtQueryOffset = CharAtCursor

\* connect(dbPath) of the provider of the connect command throws
ConnectRejected(dbPath) ==
    \E installed \in BOOLEAN, outcome \in RefreshOutcomes :
        /\ schemaProvider # 0
        /\ connectRejects(providers[commandTarget], installed, outcome)
        /\ ConnectToDatabase(dbPath, installed, outcome)

\* C33: when connect(dbPath) of the DuckDBCliProvider rejects, because the
\* CLI is not available or because the first schema refresh fails, the
\* connection state is as before: isConnected() and getDatabasePath() give
\* what they gave before the call.
C33_RejectedConnectKeepsState ==
    [][(\E dbPath \in DbPaths : ConnectRejected(dbPath))
           => /\ isConnected(providers'[commandTarget]) = isConnected(providers[commandTarget])
              /\ getDatabasePath(providers'[commandTarget])
                     = getDatabasePath(providers[commandTarget])]_vars

(***************************************************************************)
(* SQLBackgroundDecorator: the constructor and the listeners               *)
(***************************************************************************)

\* new SQLBackgroundDecorator(): the decoration type is created when the
\* setting is on, and the visible editors are decorated
ConstructDecorator(enabled) ==
    /\ ~decoratorConstructed
    /\ decoratorConstructed' = TRUE
    /\ enableBackgroundColor' = enabled
    /\ decorationType' = enabled
    /\ decorations' = decorateAllVisibleEditors(editorDocuments, enabled, NoDecorations)
    /\ UNCHANGED <<updateTimeout, editorDocuments, pendingDecoration, exceptDecorator>>

\* onDidChangeConfiguration: the old decoration type is disposed, which takes
\* its decorations out of every editor
OnDidChangeConfiguration(enabled) ==
    /\ decoratorConstructed
    /\ enableBackgroundColor' = enabled
    /\ decorationType' = enabled
    /\ decorations' = decorateAllVisibleEditors(editorDocuments, enabled, NoDecorations)
    /\ pendingDecoration' = [e \in Editors |-> FALSE]
    /\ UNCHANGED <<decoratorConstructed, updateTimeout, editorDocuments, exceptDecorator>>

OnDidChangeActiveColorTheme ==
    /\ decoratorConstructed
    /\ decorationType' = enableBackgroundColor
    /\ decorations' = decorateAllVisibleEditors(editorDocuments, enableBackgroundColor, NoDecorations)
    /\ pendingDecoration' = [e \in Editors |-> FALSE]
    /\ UNCHANGED <<decoratorConstructed, enableBackgroundColor, updateTimeout,
                   editorDocuments, exceptDecorator>>

\* onDidChangeTextDocument for the document of a visible R editor:
\* scheduleDecoration(editor) clears the timer and arms it for this editor;
\* the editor keeps its decorations over the edit
OnDidChangeTextDocument(editor, d) ==
    /\ decoratorConstructed
    /\ d # editorDocuments[editor]
    /\ editorDocuments' = [editorDocuments EXCEPT ![editor] = d]
    /\ updateTimeout' = editor
    /\ pendingDecoration' = [pendingDecoration EXCEPT ![editor] = TRUE]
    /\ UNCHANGED <<decoratorConstructed, enableBackgroundColor, decorationType,
                   decorations, exceptDecorator>>

OnDidChangeActiveTextEditor(editor) ==
    /\ decoratorConstructed
    /\ decorations' = [decorations EXCEPT
                           ![editor] = decorateEditor(editorDocuments[editor], decorationType, @)]
    /\ pendingDecoration' = [pendingDecoration EXCEPT ![editor] = FALSE]
    /\ UNCHANGED <<decoratorConstructed, enableBackgroundColor, decorationType,
                   updateTimeout, editorDocuments, exceptDecorator>>

\* the timer of scheduleDecoration fires DEBOUNCE_MS after it was armed
UpdateTimeoutFires ==
    /\ updateTimeout # NoEditor
    /\ decorations' = [decorations EXCEPT
                           ![updateTimeout] = decorateEditor(editorDocuments[updateTimeout], decorationType, @)]
    /\ pendingDecoration' = [pendingDecoration EXCEPT ![updateTimeout] = FALSE]
    /\ updateTimeout' = NoEditor
    /\ UNCHANGED <<decoratorConstructed, enableBackgroundColor, decorationType,
                   editorDocuments, exceptDecorator>>

NextDecorator ==
    \/ \E enabled \in BOOLEAN : ConstructDecorator(enabled)
    \/ \E enabled \in BOOLEAN : OnDidChangeConfiguration(enabled)
    \/ OnDidChangeActiveColorTheme
    \/ \E editor \in Editors, d \in EditorDocuments : OnDidChangeTextDocument(editor, d)
    \/ \E editor \in Editors : OnDidChangeActiveTextEditor(editor)
    \/ UpdateTimeoutFires

SpecDecorator == Init /\ [][NextDecorator]_vars

\* C35: an editor whose document has changed since decorateEditor last ran
\* for it has the timer armed for it, so that decorateEditor runs for it
\* DEBOUNCE_MS after its last change, also when the document of another
\* visible editor changes in between: no pending re-decoration is lost.
C35_PendingDecorationNeverLost ==
    \A e \in Editors : pendingDecoration[e] => updateTimeout = e

\* the string of the call of a document is SQL
SqlSource(s) == s.call \in DirectCalls /\ s.param \in {"", "sql", "statement"}

\* the positions of the characters that a set of ranges covers
Covered(ranges) ==
    UNION {{Pos(r.start.line, c) : c \in r.start.character..(r.end.character - 1)} : r \in ranges}

\* the positions of the characters of the string of a document
ContentPositions(d) ==
    LET doc == documentLines(d)
        first == Len(TextBefore(d.src))
    IN {p \in Positions(doc) :
            /\ p.character < Len(lineAt(doc, p.line))
            /\ offsetAt(doc, p) >= first
            /\ offsetAt(doc, p) < first + Len(d.src.body)}

\* the ranges are those of the SQL string of the document: they cover every
\* character of it other than white space, and nothing outside it
ExactlySqlStrings(d, ranges) ==
    IF SqlSource(d.src)
    THEN /\ Covered(ranges) \subseteq ContentPositions(d)
         /\ \A p \in ContentPositions(d) :
                ~IsSpace(charAt(lineAt(documentLines(d), p.line), p.character))
                    => p \in Covered(ranges)
    ELSE ranges = {}

\* decorateEditor has run for the text of the editor, with a decoration type
Decorated(e) == decoratorConstructed /\ decorationType /\ ~pendingDecoration[e]

\* C38: after decorateEditor has run for an editor while the background
\* colour is enabled, the decorations of the editor are exactly the SQL
\* string ranges of the current text of its document, and there are none
\* once the document has grown beyond MAX_DOCUMENT_SIZE.
C38_DecorationsAreSqlStrings ==
    \A e \in Editors :
        Decorated(e) =>
            IF documentLength(editorDocuments[e]) > MAX_DOCUMENT_SIZE
            THEN decorations[e] = {}
            ELSE ExactlySqlStrings(editorDocuments[e], decorations[e])

\* what holds of the code: the decorations of the documents within the limit
C38_WithinLimit ==
    \A e \in Editors :
        (Decorated(e) /\ documentLength(editorDocuments[e]) <= MAX_DOCUMENT_SIZE)
            => ExactlySqlStrings(editorDocuments[e], decorations[e])

\* the opening parentheses of the calls of a name in a text: the name, not
\* after a word character, then white space or nothing, then "("
OpenParens(text, name) ==
    {p \in 0..(Len(text) - 1) :
        /\ charAt(text, p) = "("
        /\ \E i \in 0..p :
              /\ startsWithAt(text, name, i)
              /\ i + Len(name) <= p
              /\ (i = 0 \/ ~IsWordChar(charAt(text, i - 1)))
              /\ \A k \in (i + Len(name))..(p - 1) : IsSpace(charAt(text, k))}

\* the call that opens at openParenPos contains the offset
CallContains(text, openParenPos, regionStart) ==
    LET closeParenPos == findMatchingCloseParen(text, openParenPos)
    IN \/ openParenPos <= regionStart /\ regionStart <= closeParenPos
       \/ closeParenPos = -1 /\ regionStart >= openParenPos

\* C36: findFunctionAndValidatePosition reports that a call of the name
\* contains the offset exactly when openParenPos <= offset <= closeParenPos
\* for a call of the name, or the closing parenthesis of the call is not
\* found and the offset is at or after openParenPos.
C36_ContainsIffBetweenParens ==
    scanned.done
        => (scanned.validated
                <=> \E openParenPos \in OpenParens(scanText, "sql") :
                        CallContains(scanText, openParenPos, scanOffset))

\* the offset is after the closing parenthesis of a closed call and before
\* the next call, and no call is reported
C36_Witness ==
    /\ scanned.done
    /\ ~scanned.validated
    /\ \E openParenPos \in OpenParens(scanText, "sql") :
          /\ findMatchingCloseParen(scanText, openParenPos) # -1
          /\ scanOffset > findMatchingCloseParen(scanText, openParenPos)
    /\ \E openParenPos \in OpenParens(scanText, "sql") : scanOffset < openParenPos

\* the offset is in a call that is never closed, and the call is reported
C36_WitnessUnclosed ==
    /\ scanned.done
    /\ scanned.validated
    /\ \A openParenPos \in OpenParens(scanText, "sql") :
          openParenPos <= scanOffset => findMatchingCloseParen(scanText, openParenPos) = -1

\* the regions that the cache holds for the document at its version, none
\* when getCachedRegions returns null
CachedRegions(u) ==
    LET got == getCachedRegions(cache, TextDocument(u, docs[u]), now)
    IN IF got.regions.isNull THEN <<>> ELSE got.regions.value

\* C37: findRegionAtPosition and isInsideSQLString use one containment rule:
\* for a region r cached for the version of the document and a position p,
\* findRegionAtPosition returns r exactly when r.start <= p < r.end, the
\* rule of the detector, so the two agree at the end of the region too.
C37_SameContainmentRule ==
    [][\A u \in Uris, p \in LookupPositions :
          FindRegionAtPosition(u, p)
              => \A k \in 1..Len(CachedRegions(u)) :
                     (ret'.value = some(CachedRegions(u)[k]))
                         <=> containsPosition(CachedRegions(u)[k].range, p)]_vars

\* what holds of the cache: it returns a region when start <= p <= end
C37_CacheContainsEnd ==
    [][\A u \in Uris, p \in LookupPositions :
          FindRegionAtPosition(u, p)
              => \A k \in 1..Len(CachedRegions(u)) :
                     (ret'.value = some(CachedRegions(u)[k]))
                         <=> containsPositionClosed(CachedRegions(u)[k].range, p)]_vars

\* the loop of stripInterpolations appends sqlText[i] to its result: the
\* result for the text up to and including i is that for the text before i,
\* followed by the character
Copied(s, i) ==
    stripInterpolations(substring(s, 0, i + 1))
        = stripInterpolations(substring(s, 0, i)) \o charAt(s, i)

\* C39: for every text and every index i, when stripInterpolations copies
\* sqlText[i] into its output, isInsideInterpolation(sqlText, i) is false.
C39_CopiedIsOutsideInterpolation ==
    gpc = "stripped"
        => \A i \in 0..(Len(sqlText) - 1) :
               Copied(sqlText, i) => ~isInsideInterpolation(sqlText, i)

\* a quoted brace and a character after it were copied, and a character
\* inside an interpolation was not
C39_Witness ==
    /\ gpc = "stripped"
    /\ \E i \in 0..(Len(sqlText) - 1), j \in 0..(Len(sqlText) - 1) :
          /\ j < i
          /\ charAt(sqlText, j) = "{" /\ Copied(sqlText, j) /\ Copied(sqlText, i)
    /\ \E i \in 0..(Len(sqlText) - 1) :
          ~Copied(sqlText, i) /\ isInsideInterpolation(sqlText, i)

====
